---- MODULE Spec2Model ----
(***************************************************************************)
(* Model of the metrics core of the developer-experience dashboard.        *)
(*                                                                         *)
(*   SpecTeam   the team attribution engine of src/utils/team_utils.py:    *)
(*              the module-level mapping cache, the TTL-cached roster      *)
(*              fetch, and dashboard threads calling                       *)
(*              get_member_team_mapping and                                *)
(*              augment_dataframe_with_team_info while the Team records    *)
(*              of the store change.                                       *)
(*   SpecTrend  the trend engine of src/utils/data_processing.py:          *)
(*              add_trendline and calculate_trend_metrics applied to every *)
(*              series of a bounded family, in floating-point arithmetic   *)
(*              with a significand of FloatBits binary digits.             *)
(*   SpecLead, SpecDeploy   the DORA metrics of src/utils/dora_metrics.py  *)
(*              and their tiers in src/components/metrics/team.py.         *)
(*   SpecAssembly, SpecRedistribute, SpecReset, SpecBatch, SpecRunWrite,   *)
(*   SpecPrWrite, SpecCommitWrite, SpecIssueWrite, SpecStamp, SpecBursts   *)
(*              the synthetic data generator of src/mock_data.py, one      *)
(*              specification for each part of generate_mock_data, and     *)
(*              the WorkflowRun upsert of src/data_collector.py.           *)
(***************************************************************************)
EXTENDS Integers, Sequences, FiniteSets, TLC

VARIABLES
    teams,              \* the Team records of the store, in query order
    team_data_cache,    \* st.cache_data entry of get_team_data: None or Some(frame)
    TEAM_MEMBER_CACHE,  \* the module global _TEAM_MEMBER_CACHE: None or Some(mapping)
    th,                 \* per dashboard thread: position and locals of the running call
    series,             \* trend engine: the input frame, a sequence of (date, value) rows
    trendline,          \* trend engine: what add_trendline did with the figure
    trend,              \* trend engine: what calculate_trend_metrics returned
    pr_df,              \* lead time: the pull request frame, its records in query order
    lead_df,            \* lead time: None or Some(what calculate_lead_time returned)
    lead_insight,       \* lead time: None or Some(what render_team_insights showed)
    workflow_df,        \* deployments: the workflow run frame, its records in query order
    deploy_freq,        \* deployments: None or Some(the period asked for and the table returned)
    avg_weekly,         \* deployments: None or Some(the weekly deployment average)
    deploy_tier,        \* deployments: None or Some(the tier shown for avg_weekly)
    gen,                \* generator: position and locals of the team assembly
    written_run,        \* None or Some(the WorkflowRun record last written)
    written_pr,         \* generator: None or Some(the PullRequest record last built)
    reset,              \* generator: position of the reset, and what each collection holds
    drawn_author,       \* generator: None or Some(the author last drawn for a record)
    batch,              \* generator: the batched inserts of one record kind
    written_commit,     \* generator: None or Some(the Commit last built and what it links to)
    written_issue,      \* generator: None or Some(the Issue last built and the draws behind it)
    stamp,              \* generator: None or Some(the event timestamp last drawn)
    bursts              \* generator: the commit bursts of one repository and the commits dated

teamVars == <<teams, team_data_cache, TEAM_MEMBER_CACHE, th>>
trendVars == <<series, trendline, trend>>
leadVars == <<pr_df, lead_df, lead_insight>>
deployVars == <<workflow_df, deploy_freq, avg_weekly, deploy_tier>>
recVars == <<drawn_author, batch, written_commit, written_issue, stamp, bursts>>
genVars == <<gen, written_run, written_pr, reset, recVars>>
vars == <<teams, team_data_cache, TEAM_MEMBER_CACHE, th, series, trendline, trend,
          pr_df, lead_df, lead_insight, workflow_df, deploy_freq, avg_weekly, deploy_tier,
          gen, written_run, written_pr, reset,
          drawn_author, batch, written_commit, written_issue, stamp, bursts>>

(***************************************************************************)
(* Bounds                                                                  *)
(***************************************************************************)
NumThreads == 2
NumAuthors == 11
MaxAugmenting == 1
MaxPoints == 3
MaxPrs == 2
MaxRuns == 2
ORG_SIZE == 14
MaxDelay == 2
BATCH_SIZE == 2
MaxPerRepo == 3
IssuesPerRepo == 2
NumDevs == 3
SlotsPerDay == 3
WindowDays == 7
MaxSpread == 2
MaxClusters == 3
MaxClusterSize == 2
CommitsPerRepo == 4
MaxDraw == 2
RunIdModulus == 2
MaxTime == 2
MaxVal == 3
UnitsPerDay == 2
FloatBits == 3

(***************************************************************************)
(* Values                                                                  *)
(***************************************************************************)
\* Python None / an optional value: the empty sequence, or a one-element one.
None == << >>
Some(v) == <<v>>
IsNone(o) == Len(o) = 0
Value(o) == o[1]

\* A null / NaN author cell; authors are 1..NumAuthors ("dev1", "dev2", ...).
NoAuthor == 0
Authors == 1..NumAuthors

\* default_team='Other' of augment_dataframe_with_team_info; no caller overrides it.
DefaultTeam == "Other"
Unassigned == "Unassigned"

Run(lo, hi) == [k \in 1..(hi - lo + 1) |-> lo + k - 1]
SeqRange(s) == {s[k] : k \in 1..Len(s)}

\* A Team document as a row of the frame get_team_data returns: is_list is
\* whether the row's 'members' cell is a list (it is NaN when the document
\* has no members field while another document has one).
Team(n, m) == [name |-> n, members |-> m, is_list |-> TRUE]
TeamWithoutMembers(n) == [name |-> n, members |-> << >>, is_list |-> FALSE]

\* The contents the Team collection takes in the model.
RosterChoices ==
    { << >>,
      << Team("A", << >>) >>,
      << Team("A", <<1, 2>>), Team("B", <<2, 3>>) >>,
      << Team("A", Run(1, 5)), TeamWithoutMembers("B"),
         Team("C", Run(5, NumAuthors - 2)) >> }

\* The frames handed to augment_dataframe_with_team_info: whether the author
\* column exists, and the author cell of each row.
Frame(h, r) == [has_author |-> h, rows |-> r]
DfChoices ==
    { Frame(TRUE, << >>),
      Frame(FALSE, <<NoAuthor, NoAuthor>>),
      Frame(TRUE, <<NoAuthor, NoAuthor>>),
      Frame(TRUE, <<2, NoAuthor, 4, 2>>),
      Frame(TRUE, Run(1, NumAuthors - 1) \o <<NoAuthor>>),
      Frame(TRUE, Run(1, NumAuthors)) }

EmptyMapping == [a \in {} |-> DefaultTeam]

(***************************************************************************)
(* get_member_team_mapping: building the mapping                           *)
(***************************************************************************)
\* The mutant of AssignMember: the first team to list a member keeps it.
AssignMemberFirstWins(mapping, member, team_name) ==
    mapping @@ (member :> team_name)

\* mapping[member] = team_name
AssignMember(mapping, member, team_name) ==
    (member :> team_name) @@ mapping

\* for member in team['members']: mapping[member] = team_name
RECURSIVE AddMembers(_, _, _, _)
AddMembers(mapping, members, team_name, j) ==
    IF j > Len(members) THEN mapping
    ELSE AddMembers(AssignMember(mapping, members[j], team_name),
                    members, team_name, j + 1)

\* One iteration of `for _, team in team_df.iterrows()`.
AddTeam(mapping, team) ==
    IF team.is_list THEN AddMembers(mapping, team.members, team.name, 1)
    ELSE mapping

\* The mutant of LoopDone: the loop stops one team short.
LoopDoneEarly(team_df, i) == i >= Len(team_df)

\* The iteration over the frame's rows is exhausted.
LoopDone(team_df, i) == i > Len(team_df)

(***************************************************************************)
(* augment_dataframe_with_team_info: the pure parts                        *)
(***************************************************************************)
\* set(df[author_field].dropna().unique())
AllAuthors(df) == SeqRange(df.rows) \ {NoAuthor}

\* all_authors - set(mapping.keys())
UnmappedAuthors(df, mapping) == AllAuthors(df) \ DOMAIN mapping

\* unmapped_count > 0 and unmapped_count > len(all_authors) * 0.1
NeedsRefresh(df, mapping) ==
    LET unmapped_count == Cardinality(UnmappedAuthors(df, mapping))
    IN  /\ unmapped_count > 0
        /\ 10 * unmapped_count > Cardinality(AllAuthors(df))

\* The mutant of NoMappingTeam: a null author gets the default team too.
NoMappingTeamDefaultOnly(x) == DefaultTeam

\* lambda x: default_team if pd.notna(x) else "Unassigned"
NoMappingTeam(x) == IF x # NoAuthor THEN DefaultTeam ELSE Unassigned

\* lambda x: mapping.get(x, default_team) if pd.notna(x) else "Unassigned"
MappedTeam(mapping, x) ==
    IF x # NoAuthor
    THEN IF x \in DOMAIN mapping THEN mapping[x] ELSE DefaultTeam
    ELSE Unassigned

\* The mutant of RefreshedMapping: the refreshed mapping is dropped.
RefreshedMappingStale(old, returned) == old

\* mapping = get_member_team_mapping(force_refresh=True)
RefreshedMapping(old, returned) == returned

\* The frame returned when the author column is missing or the frame is empty.
Unchanged(df) == [rows |-> df.rows, has_team |-> FALSE, team |-> << >>]
\* result_df = df.copy() with result_df['team'] set.
WithTeams(df, team) == [rows |-> df.rows, has_team |-> TRUE, team |-> team]

\* result_df[author_field].apply(...) of the branch without a mapping.
NoMappingTeams(df) == [k \in 1..Len(df.rows) |-> NoMappingTeam(df.rows[k])]

\* result_df[author_field].map(...) with the mapping.
MappedTeams(df, mapping) ==
    [k \in 1..Len(df.rows) |-> MappedTeam(mapping, df.rows[k])]

(***************************************************************************)
(* Threads                                                                 *)
(***************************************************************************)
Threads == 1..NumThreads

NoFrame == Frame(FALSE, << >>)
NoResult == [rows |-> << >>, has_team |-> FALSE, team |-> << >>]

Idle ==
    [pc |-> "idle", op |-> "none", force_refresh |-> FALSE,
     mapping |-> EmptyMapping, team_df |-> << >>, i |-> 0, ret |-> EmptyMapping,
     df |-> NoFrame, a_mapping |-> EmptyMapping, stale |-> EmptyMapping,
     first_hit |-> FALSE, refreshes |-> 0, result_df |-> NoResult]

\* A call of get_member_team_mapping(force_refresh) that is not made by
\* augment_dataframe_with_team_info (map_authors_to_teams, or a refresh).
CallGet(t, force) ==
    /\ th[t].pc = "idle"
    /\ th' = [th EXCEPT ![t] = [Idle EXCEPT !.pc = "g_check", !.op = "get",
                                           !.force_refresh = force]]
    /\ UNCHANGED <<teams, team_data_cache, TEAM_MEMBER_CACHE>>

\* augment_dataframe_with_team_info(df): the early return, or the call of
\* get_member_team_mapping().
CallAugment(t, df) ==
    /\ th[t].pc = "idle"
    /\ Cardinality({u \in Threads : th[u].op = "augment"}) < MaxAugmenting
    /\ IF Len(df.rows) = 0 \/ ~df.has_author
       THEN th' = [th EXCEPT ![t] = [Idle EXCEPT !.pc = "done", !.op = "augment",
                                                !.df = df,
                                                !.result_df = Unchanged(df)]]
       ELSE th' = [th EXCEPT ![t] = [Idle EXCEPT !.pc = "g_check", !.op = "augment",
                                                !.df = df]]
    /\ UNCHANGED <<teams, team_data_cache, TEAM_MEMBER_CACHE>>

\* if _TEAM_MEMBER_CACHE is not None and not force_refresh: return it;
\* otherwise mapping = {}.  first_hit records that the call's first
\* get_member_team_mapping() was answered by the cache.
GCheck(t) ==
    /\ th[t].pc = "g_check"
    /\ IF ~IsNone(TEAM_MEMBER_CACHE) /\ ~th[t].force_refresh
       THEN th' = [th EXCEPT ![t].pc = "g_ret",
                             ![t].ret = Value(TEAM_MEMBER_CACHE),
                             ![t].first_hit = (th[t].refreshes = 0)]
       ELSE th' = [th EXCEPT ![t].pc = "g_fetch", ![t].mapping = EmptyMapping]
    /\ UNCHANGED <<teams, team_data_cache, TEAM_MEMBER_CACHE>>

\* get_team_data() under @st.cache_data(ttl=600): the entry if there is one,
\* else the store's Team records, which become the entry.
TeamDataNow == IF IsNone(team_data_cache) THEN teams ELSE Value(team_data_cache)

\* team_df = get_team_data(); if team_df.empty: return mapping
GFetch(t) ==
    /\ th[t].pc = "g_fetch"
    /\ team_data_cache' = Some(TeamDataNow)
    /\ IF Len(TeamDataNow) = 0
       THEN th' = [th EXCEPT ![t].pc = "g_ret", ![t].team_df = TeamDataNow,
                             ![t].ret = th[t].mapping]
       ELSE th' = [th EXCEPT ![t].pc = "g_loop", ![t].team_df = TeamDataNow,
                             ![t].i = 1]
    /\ UNCHANGED <<teams, TEAM_MEMBER_CACHE>>

\* One team of the loop over team_df, into the local mapping.
GLoop(t) ==
    /\ th[t].pc = "g_loop"
    /\ ~LoopDone(th[t].team_df, th[t].i)
    /\ th' = [th EXCEPT ![t].mapping = AddTeam(th[t].mapping, th[t].team_df[th[t].i]),
                        ![t].i = th[t].i + 1]
    /\ UNCHANGED <<teams, team_data_cache, TEAM_MEMBER_CACHE>>

\* _TEAM_MEMBER_CACHE = mapping; return mapping
GStore(t) ==
    /\ th[t].pc = "g_loop"
    /\ LoopDone(th[t].team_df, th[t].i)
    /\ TEAM_MEMBER_CACHE' = Some(th[t].mapping)
    /\ th' = [th EXCEPT ![t].pc = "g_ret", ![t].ret = th[t].mapping]
    /\ UNCHANGED <<teams, team_data_cache>>

\* The direct caller receives the mapping.
GetReturns(t) ==
    /\ th[t].pc = "g_ret"
    /\ th[t].op = "get"
    /\ th' = [th EXCEPT ![t].pc = "done"]
    /\ UNCHANGED <<teams, team_data_cache, TEAM_MEMBER_CACHE>>

\* augment_dataframe_with_team_info after mapping = get_member_team_mapping():
\* the empty-mapping return, the coverage check and its forced refresh, or the
\* mapping of the authors.
AugmentMapped(t) ==
    /\ th[t].pc = "g_ret"
    /\ th[t].op = "augment"
    /\ th[t].refreshes = 0
    /\ LET mapping == th[t].ret
           df == th[t].df
       IN  IF DOMAIN mapping = {}
           THEN th' = [th EXCEPT ![t].pc = "done", ![t].a_mapping = mapping,
                                 ![t].result_df = WithTeams(df, NoMappingTeams(df))]
           ELSE IF NeedsRefresh(df, mapping)
           THEN th' = [th EXCEPT ![t].pc = "g_check", ![t].a_mapping = mapping,
                                 ![t].stale = mapping,
                                 ![t].force_refresh = TRUE,
                                 ![t].refreshes = 1]
           ELSE th' = [th EXCEPT ![t].pc = "done", ![t].a_mapping = mapping,
                                 ![t].result_df =
                                     WithTeams(df, MappedTeams(df, mapping))]
    /\ UNCHANGED <<teams, team_data_cache, TEAM_MEMBER_CACHE>>

\* augment_dataframe_with_team_info after the forced refresh returned.
AugmentRefreshed(t) ==
    /\ th[t].pc = "g_ret"
    /\ th[t].op = "augment"
    /\ th[t].refreshes = 1
    /\ LET mapping == RefreshedMapping(th[t].a_mapping, th[t].ret)
       IN  th' = [th EXCEPT ![t].pc = "done", ![t].a_mapping = mapping,
                             ![t].result_df =
                                 WithTeams(th[t].df, MappedTeams(th[t].df, mapping))]
    /\ UNCHANGED <<teams, team_data_cache, TEAM_MEMBER_CACHE>>

\* The call is over; the thread's locals are gone.
Finish(t) ==
    /\ th[t].pc = "done"
    /\ th' = [th EXCEPT ![t] = Idle]
    /\ UNCHANGED <<teams, team_data_cache, TEAM_MEMBER_CACHE>>

\* The collector or the generator rewrites the Team records.
StoreUpdate(r) ==
    /\ r # teams
    /\ teams' = r
    /\ UNCHANGED <<team_data_cache, TEAM_MEMBER_CACHE, th>>

\* 600 seconds have passed since get_team_data's entry was computed.
ExpireTeamData ==
    /\ ~IsNone(team_data_cache)
    /\ team_data_cache' = None
    /\ UNCHANGED <<teams, TEAM_MEMBER_CACHE, th>>

\* The lead-time derivation before any frame was handed to it.
LeadIdle ==
    /\ pr_df = [has_merged_at |-> FALSE, rows |-> << >>]
    /\ lead_df = None
    /\ lead_insight = None

\* The deployment-frequency derivation before any frame was handed to it.
DeployIdle ==
    /\ workflow_df = << >>
    /\ deploy_freq = None
    /\ avg_weekly = None
    /\ deploy_tier = None

\* The generator and the collector before they run.
RecIdle ==
    /\ drawn_author = << >>
    /\ batch = << >>
    /\ written_commit = << >>
    /\ written_issue = << >>
    /\ stamp = << >>
    /\ bursts = << >>

GenIdle ==
    /\ gen = [pc |-> "idle", team_sizes |-> << >>, total_allocated |-> 0,
              adjustment_needed |-> 0, remaining_authors |-> << >>, teams |-> << >>]
    /\ written_run = None
    /\ written_pr = None
    /\ reset = [pc |-> "idle", collections |-> << >>, deleted |-> 0, inserted |-> 0]
    /\ RecIdle

TrendIdle ==
    /\ series = << >>
    /\ trendline = "pending"
    /\ trend = [status |-> "pending", direction |-> "",
                percent_change |-> [num |-> 0, den |-> 1]]

InitTeam ==
    /\ teams \in RosterChoices
    /\ team_data_cache = None
    /\ TEAM_MEMBER_CACHE = None
    /\ th = [t \in Threads |-> Idle]
    /\ TrendIdle
    /\ LeadIdle
    /\ DeployIdle
    /\ GenIdle

NextTeam ==
    /\ \/ \E t \in Threads : \E force \in BOOLEAN : CallGet(t, force)
       \/ \E t \in Threads : \E df \in DfChoices : CallAugment(t, df)
       \/ \E t \in Threads : GCheck(t)
       \/ \E t \in Threads : GFetch(t)
       \/ \E t \in Threads : GLoop(t)
       \/ \E t \in Threads : GStore(t)
       \/ \E t \in Threads : GetReturns(t)
       \/ \E t \in Threads : AugmentMapped(t)
       \/ \E t \in Threads : AugmentRefreshed(t)
       \/ \E t \in Threads : Finish(t)
       \/ \E r \in RosterChoices : StoreUpdate(r)
       \/ ExpireTeamData
    /\ UNCHANGED <<trendVars, leadVars, deployVars, genVars>>

SpecTeam == InitTeam /\ [][NextTeam]_vars

(***************************************************************************)
(* Team attribution: what the claims are stated over                       *)
(***************************************************************************)
\* The authors on some roster of the frame, and the last row listing one.
Rostered(team_df) ==
    {a \in Authors : \E k \in 1..Len(team_df) :
        team_df[k].is_list /\ a \in SeqRange(team_df[k].members)}
LastListing(team_df, a) ==
    CHOOSE k \in 1..Len(team_df) :
        /\ team_df[k].is_list /\ a \in SeqRange(team_df[k].members)
        /\ \A l \in (k + 1)..Len(team_df) :
               ~(team_df[l].is_list /\ a \in SeqRange(team_df[l].members))
LastTeamWins(team_df) ==
    [a \in Rostered(team_df) |-> team_df[LastListing(team_df, a)].name]
InSeveralRosters(team_df, a) ==
    \E k, l \in 1..Len(team_df) :
        /\ k < l
        /\ team_df[k].is_list /\ a \in SeqRange(team_df[k].members)
        /\ team_df[l].is_list /\ a \in SeqRange(team_df[l].members)

\* A thread whose build has run its loop to the end.
BuildFinished(t) ==
    th[t].pc = "g_loop" /\ th[t].i = Len(th[t].team_df) + 1

\* A thread holding the frame augment_dataframe_with_team_info returns.
AugmentDone(t) == th[t].pc = "done" /\ th[t].op = "augment"

\* The mapping the call's first get_member_team_mapping() returned.
FirstMapping(t) == IF th[t].refreshes = 1 THEN th[t].stale ELSE th[t].a_mapping

\* C1: every finished build maps each author found on some roster to the
\* name of the last team, in row order, that lists the author, and maps
\* no other author.
C1_LastTeamWins ==
    \A t \in Threads :
        BuildFinished(t) => th[t].mapping = LastTeamWins(th[t].team_df)

C1_Witness ==
    \E t \in Threads : \E a \in Authors :
        /\ BuildFinished(t)
        /\ InSeveralRosters(th[t].team_df, a)
        /\ th[t].mapping[a] = th[t].team_df[LastListing(th[t].team_df, a)].name
        /\ \E b \in Authors : b \notin DOMAIN th[t].mapping

\* The team the claim gives an author cell x under mapping m.
ClaimedTeam(m, x, k, team) ==
    /\ x \in DOMAIN m => team[k] = m[x]
    /\ (x # NoAuthor /\ x \notin DOMAIN m) => team[k] = DefaultTeam
    /\ x = NoAuthor => team[k] = Unassigned
TeamsAsClaimed(t) ==
    LET r == th[t].result_df
    IN  /\ r.has_team
        /\ r.rows = th[t].df.rows
        /\ Len(r.team) = Len(th[t].df.rows)
        /\ Unassigned # DefaultTeam
        /\ \A k \in 1..Len(r.rows) : ClaimedTeam(th[t].ret, r.rows[k], k, r.team)

C3_RebuildIffCoverageGap ==
    \A t \in Threads :
        (AugmentDone(t) /\ Len(th[t].df.rows) > 0 /\ th[t].first_hit) =>
            (th[t].refreshes = 1 <=>
                10 * Cardinality(AllAuthors(th[t].df) \ DOMAIN FirstMapping(t))
                    > Cardinality(AllAuthors(th[t].df)))

\* C4: a call makes at most one forced rebuild, and after a rebuild the
\* teams of the returned records are those of the rebuilt mapping.
C4_OneRebuildAndFreshLabels ==
    \A t \in Threads :
        /\ th[t].refreshes <= 1
        /\ (th[t].refreshes = 1 /\ th[t].pc \in {"g_check", "g_fetch", "g_loop"})
               => th[t].force_refresh
        /\ (AugmentDone(t) /\ th[t].refreshes = 1) =>
               \A k \in 1..Len(th[t].df.rows) :
                   ClaimedTeam(th[t].ret, th[t].df.rows[k], k, th[t].result_df.team)

C4_Witness ==
    \E t \in Threads : \E k \in 1..Len(th[t].df.rows) :
        LET x == th[t].df.rows[k]
        IN  /\ AugmentDone(t)
            /\ th[t].refreshes = 1
            /\ x \notin DOMAIN th[t].stale
            /\ x \in DOMAIN th[t].ret
            /\ th[t].result_df.team[k] = th[t].ret[x]

\* C5: when get_member_team_mapping(force_refresh=True) has returned M, the
\* cached mapping is M.
C5_ForcedRefreshReplacesCache ==
    \A t \in Threads :
        (th[t].pc = "g_ret" /\ th[t].force_refresh) =>
            TEAM_MEMBER_CACHE = Some(th[t].ret)

\* The complete mappings: the finished build of one content of the rosters.
CompleteMappings == {LastTeamWins(r) : r \in RosterChoices}

\* C6: the cache only ever holds, and a caller only ever receives, the
\* complete mapping of one roster snapshot, whatever the other threads are
\* in the middle of building.
C6_NoPartialMapping ==
    /\ IsNone(TEAM_MEMBER_CACHE) \/ Value(TEAM_MEMBER_CACHE) \in CompleteMappings
    /\ \A t \in Threads : th[t].pc \in {"g_ret", "done"} => th[t].ret \in CompleteMappings

C6_Witness ==
    \E t, u \in Threads :
        /\ th[t].pc = "g_loop" /\ th[t].i > 1
        /\ th[t].mapping \notin CompleteMappings
        /\ th[u].pc = "g_ret" /\ ~th[u].force_refresh
        /\ TEAM_MEMBER_CACHE = Some(th[u].ret)
        /\ th[u].ret # EmptyMapping

\* C7: at most one rebuild is in flight at any time.
C7_RebuildsCoalesced ==
    Cardinality({t \in Threads : th[t].pc \in {"g_fetch", "g_loop"}}) <= 1

\* C8: once a mapping is cached, a forced refresh scans the Team records as
\* they are in the store at the time of the refresh.
C8_ForcedRefreshReadsStore ==
    [][\A t \in Threads :
          (/\ th[t].pc = "g_fetch" /\ th'[t].pc # "g_fetch"
           /\ th[t].force_refresh
           /\ ~IsNone(TEAM_MEMBER_CACHE))
              => th'[t].team_df = teams]_vars

(***************************************************************************)
(* Trend engine: exact rational arithmetic                                 *)
(***************************************************************************)
Abs(a) == IF a < 0 THEN 0 - a ELSE a
RECURSIVE GCD(_, _)
GCD(a, b) == IF b = 0 THEN a ELSE GCD(b, a % b)

\* The rational n/d (d # 0), in lowest terms with a positive denominator.
Rat(n, d) ==
    LET g == GCD(Abs(n), Abs(d))
        sg == IF d < 0 THEN 0 - 1 ELSE 1
    IN  [num |-> (sg * n) \div g, den |-> (sg * d) \div g]
FromInt(a) == [num |-> a, den |-> 1]
Zero == FromInt(0)
RAdd(a, b) == Rat(a.num * b.den + b.num * a.den, a.den * b.den)
RSub(a, b) == Rat(a.num * b.den - b.num * a.den, a.den * b.den)
RMul(a, b) == Rat(a.num * b.num, a.den * b.den)
RDiv(a, b) == Rat(a.num * b.den, a.den * b.num)
RLess(a, b) == a.num * b.den < b.num * a.den

RNeg(a) == [num |-> 0 - a.num, den |-> a.den]

RECURSIVE Pow2(_)
Pow2(k) == IF k = 0 THEN 1 ELSE 2 * Pow2(k - 1)

\* The positive rational n/d rounded to the nearest number with FloatBits
\* significant binary digits, ties to the even significand.
RECURSIVE RoundPos(_, _)
RoundPos(n, d) ==
    IF n >= Pow2(FloatBits) * d THEN RMul(FromInt(2), RoundPos(n, 2 * d))
    ELSE IF n < Pow2(FloatBits - 1) * d THEN RDiv(RoundPos(2 * n, d), FromInt(2))
    ELSE LET q == n \div d
             rem == n % d
         IN  IF 2 * rem > d \/ (2 * rem = d /\ q % 2 = 1)
             THEN FromInt(q + 1)
             ELSE FromInt(q)

\* The float nearest to the rational r: every float operation of the code
\* returns the exact result rounded this way.
Fl(r) ==
    IF r.num = 0 THEN Zero
    ELSE IF r.num < 0 THEN RNeg(RoundPos(0 - r.num, r.den))
    ELSE RoundPos(r.num, r.den)
FAdd(a, b) == Fl(RAdd(a, b))
FSub(a, b) == Fl(RSub(a, b))
FMul(a, b) == Fl(RMul(a, b))
FDiv(a, b) == Fl(RDiv(a, b))

\* The sum of xs[1..k], accumulated from the left.
RECURSIVE FSum(_, _)
FSum(xs, k) == IF k = 0 THEN Zero ELSE FAdd(FSum(xs, k - 1), xs[k])
FMean(xs) == FDiv(FSum(xs, Len(xs)), FromInt(Len(xs)))
RMin(xs) == xs[CHOOSE k \in 1..Len(xs) : \A l \in 1..Len(xs) : ~RLess(xs[l], xs[k])]
RMax(xs) == xs[CHOOSE k \in 1..Len(xs) : \A l \in 1..Len(xs) : ~RLess(xs[k], xs[l])]

\* A row of the frame: its date cell (None is NaT, else a time in units of
\* 1/UnitsPerDay day since the epoch) and its value cell (None is NaN).
Row(d, v) == [date |-> d, value |-> v]
Dates == {None} \cup {Some(u) : u \in 0..MaxTime}
Values == {None} \cup {Some(v) : v \in (0 - 1)..MaxVal}
SeriesInputs ==
    UNION {[1..n -> {Row(d, v) : d \in Dates, v \in Values}] : n \in 0..MaxPoints}

\* df[[date_col, value_col]].dropna()
IsValid(row) == ~IsNone(row.date) /\ ~IsNone(row.value)
DropNa(df) == SelectSeq(df, IsValid)

\* The mutant of EnoughData: one point is taken to be enough.
EnoughDataOnePoint(n) == n >= 1

\* len(...) >= 2, the guard of both functions (len(...) < 2 returns early).
EnoughData(n) == n >= 2

\* valid_data[date_col].map(pd.Timestamp.timestamp) / 86400: days since epoch.
XNumeric(valid_data) ==
    [k \in 1..Len(valid_data) |-> Fl(Rat(Value(valid_data[k].date), UnitsPerDay))]
YValues(valid_data) ==
    [k \in 1..Len(valid_data) |-> Fl(FromInt(Value(valid_data[k].value)))]

\* stats.linregress raises ValueError when all x values are identical.
AllIdentical(x) == \A k, l \in 1..Len(x) : x[k] = x[l]

\* stats.linregress(x, y): the means, the (co)variances of np.cov(bias=1)
\* (the rows less their means, their dot products, times 1/n),
\* slope = ssxym / ssxm and intercept = ymean - slope * xmean.
Linregress(x, y) ==
    LET xmean == FMean(x)
        ymean == FMean(y)
        dx == [k \in 1..Len(x) |-> FSub(x[k], xmean)]
        dy == [k \in 1..Len(x) |-> FSub(y[k], ymean)]
        norm == FDiv(FromInt(1), FromInt(Len(x)))
        ssxm == FMul(FSum([k \in 1..Len(x) |-> FMul(dx[k], dx[k])], Len(x)), norm)
        ssxym == FMul(FSum([k \in 1..Len(x) |-> FMul(dx[k], dy[k])], Len(x)), norm)
        slope == FDiv(ssxym, ssxm)
    IN  [slope |-> slope, intercept |-> FSub(ymean, FMul(slope, xmean))]

\* if slope > 0: "Increasing" elif slope < 0: "Decreasing" else: "Stable"
Direction(slope) ==
    IF slope.num > 0 THEN "Increasing"
    ELSE IF slope.num < 0 THEN "Decreasing"
    ELSE "Stable"

\* y_start, y_end on the fitted line and the percent change between them.
PercentChange(fit, x) ==
    LET y_start == FAdd(FMul(fit.slope, RMin(x)), fit.intercept)
        y_end == FAdd(FMul(fit.slope, RMax(x)), fit.intercept)
    IN  IF y_start # Zero
        THEN FMul(FDiv(FSub(y_end, y_start), y_start), FromInt(100))
        ELSE Zero

Returned(direction, percent_change) ==
    [status |-> "returned", direction |-> direction, percent_change |-> percent_change]
Raised == [status |-> "raised", direction |-> "", percent_change |-> Zero]
Pending == [status |-> "pending", direction |-> "", percent_change |-> Zero]

\* calculate_trend_metrics(df, date_col, value_col)
CalculateTrendMetrics(df) ==
    IF ~EnoughData(Len(df)) THEN Returned("Not enough data", Zero)
    ELSE LET valid_data == DropNa(df)
         IN  IF ~EnoughData(Len(valid_data)) THEN Returned("Not enough data", Zero)
             ELSE LET x == XNumeric(valid_data)
                  IN  IF AllIdentical(x) THEN Raised
                      ELSE LET fit == Linregress(x, YValues(valid_data))
                           IN  Returned(Direction(fit.slope), PercentChange(fit, x))

\* add_trendline(fig, df, x_col, y_col): "line" when a trace was added to the
\* figure, "none" when the figure is returned as it came, "raised" when
\* linregress raised.
AddTrendline(df) ==
    IF EnoughData(Len(df))
    THEN LET valid_data == DropNa(df)
         IN  IF EnoughData(Len(valid_data))
             THEN IF AllIdentical(XNumeric(valid_data)) THEN "raised" ELSE "line"
             ELSE "none"
    ELSE "none"

TeamIdle ==
    /\ teams = << >>
    /\ team_data_cache = None
    /\ TEAM_MEMBER_CACHE = None
    /\ th = [t \in Threads |-> Idle]

InitTrend ==
    /\ series \in SeriesInputs
    /\ trendline = "pending"
    /\ trend = Pending
    /\ TeamIdle
    /\ LeadIdle
    /\ DeployIdle
    /\ GenIdle

DoAddTrendline ==
    /\ trendline = "pending"
    /\ trendline' = AddTrendline(series)
    /\ UNCHANGED <<series, trend>>

DoCalculateTrendMetrics ==
    /\ trend = Pending
    /\ trend' = CalculateTrendMetrics(series)
    /\ UNCHANGED <<series, trendline>>

NextTrend ==
    /\ \/ DoAddTrendline
       \/ DoCalculateTrendMetrics
    /\ UNCHANGED <<teamVars, leadVars, deployVars, genVars>>

SpecTrend == InitTrend /\ [][NextTrend]_vars

(***************************************************************************)
(* Trend engine: what the claims are stated over                           *)
(***************************************************************************)
\* The rows of the input with both cells present.
ValidRows == {k \in 1..Len(series) : ~IsNone(series[k].date) /\ ~IsNone(series[k].value)}
TimeAt(k) == Value(series[k].date)
ValueAt(k) == Value(series[k].value)

\* The sum of f[k] over the rows k of S.
RECURSIVE SumOver(_, _)
SumOver(S, f) ==
    IF S = {} THEN 0
    ELSE LET k == CHOOSE k \in S : TRUE IN f[k] + SumOver(S \ {k}, f)

\* The sign of the least-squares slope of value against time:
\* n * sum(t * v) - sum(t) * sum(v), over a positive denominator.
OlsSlopeNumerator ==
    LET t == [k \in ValidRows |-> TimeAt(k)]
        v == [k \in ValidRows |-> ValueAt(k)]
        tv == [k \in ValidRows |-> TimeAt(k) * ValueAt(k)]
    IN  Cardinality(ValidRows) * SumOver(ValidRows, tv)
            - SumOver(ValidRows, t) * SumOver(ValidRows, v)
DistinctTimes == \E k, l \in ValidRows : TimeAt(k) # TimeAt(l)
ConstantSeries == \A k, l \in ValidRows : ValueAt(k) = ValueAt(l)

C10_DirectionFollowsSlope ==
    (trend # Pending /\ Cardinality(ValidRows) >= 2 /\ DistinctTimes) =>
        /\ trend.status = "returned"
        /\ trend.direction = "Increasing" <=> OlsSlopeNumerator > 0
        /\ trend.direction = "Decreasing" <=> OlsSlopeNumerator < 0
        /\ trend.direction = "Stable" <=> OlsSlopeNumerator = 0
        /\ ConstantSeries => (trend.direction = "Stable" /\ trend.percent_change = Zero)

\* The least-squares line of value against time in exact arithmetic, at time
\* u: mean(v) + slope * (u - mean(t)).
OlsSlopeDenominator ==
    LET t == [k \in ValidRows |-> TimeAt(k)]
        tt == [k \in ValidRows |-> TimeAt(k) * TimeAt(k)]
    IN  Cardinality(ValidRows) * SumOver(ValidRows, tt)
            - SumOver(ValidRows, t) * SumOver(ValidRows, t)
ExactFit(u) ==
    LET n == Cardinality(ValidRows)
        t == [k \in ValidRows |-> TimeAt(k)]
        v == [k \in ValidRows |-> ValueAt(k)]
    IN  RAdd(Rat(SumOver(ValidRows, v), n),
             RMul(Rat(OlsSlopeNumerator, OlsSlopeDenominator),
                  Rat(n * u - SumOver(ValidRows, t), n)))
TimeMin == CHOOSE u \in {TimeAt(k) : k \in ValidRows} : \A k \in ValidRows : u <= TimeAt(k)
TimeMax == CHOOSE u \in {TimeAt(k) : k \in ValidRows} : \A k \in ValidRows : u >= TimeAt(k)
ExactPercentChange ==
    IF ExactFit(TimeMin) = Zero THEN Zero
    ELSE RMul(RDiv(RSub(ExactFit(TimeMax), ExactFit(TimeMin)), ExactFit(TimeMin)),
              FromInt(100))
\* Every valid point lies on one line, and the percent change from the
\* earliest to the latest raw value.
PerfectlyLinear == \A k \in ValidRows : FromInt(ValueAt(k)) = ExactFit(TimeAt(k))
RawPercentChange ==
    LET first == ValueAt(CHOOSE k \in ValidRows : TimeAt(k) = TimeMin)
        last == ValueAt(CHOOSE k \in ValidRows : TimeAt(k) = TimeMax)
    IN  IF first = 0 THEN Zero ELSE Rat((last - first) * 100, first)

\* C11: with at least 2 valid rows at distinct times the percent change is
\* (f(xmax) - f(xmin)) / f(xmin) * 100 for the fitted line f, it is 0 when
\* f(xmin) is 0, and for a perfectly linear series it is the percent change
\* from the earliest to the latest raw value; "is" up to the representation
\* of the result, that is, the returned float is the one nearest to it.
C11_PercentChangeFromFit ==
    (trend # Pending /\ Cardinality(ValidRows) >= 2 /\ DistinctTimes) =>
        /\ trend.status = "returned"
        /\ trend.percent_change = Fl(ExactPercentChange)
        /\ PerfectlyLinear => trend.percent_change = Fl(RawPercentChange)

\* C12: calculate_trend_metrics returns a (direction, percent change) pair
\* for every input series and never raises, the series whose valid points
\* all share one timestamp and the fitted start value of 0 included.
C12_NeverRaises == trend # Pending => trend.status = "returned"

\* C29: the sign of the percent change agrees with the direction: an
\* Increasing trend has a percent change >= 0 and a Decreasing trend has a
\* percent change <= 0, for every input series.
C29_SignAgreesWithDirection ==
    trend.status = "returned" =>
        /\ trend.direction = "Increasing" => trend.percent_change.num >= 0
        /\ trend.direction = "Decreasing" => trend.percent_change.num <= 0

(***************************************************************************)
(* Lead time for changes: calculate_lead_time of src/utils/dora_metrics.py *)
(* and its use in render_team_insights of src/components/metrics/team.py.  *)
(* Times are in units of 1/UnitsPerDay day; the lead times and their mean  *)
(* are kept exact.                                                         *)
(***************************************************************************)
\* A pull request record: created_at, and merged_at or None (NaT).
Pr(c, m) == [created_at |-> c, merged_at |-> m]
CreatedTimes == {0, 1}
\* Lead times around the tier boundaries of 1, 7 and 30 days.
MergedTimes ==
    {0, UnitsPerDay - 1, UnitsPerDay, 7 * UnitsPerDay, 7 * UnitsPerDay + 1,
     30 * UnitsPerDay, 30 * UnitsPerDay + 1}
PrRecords ==
    {Pr(c, m) : c \in CreatedTimes, m \in {None} \cup {Some(u) : u \in MergedTimes}}
\* The frames handed to calculate_lead_time, of up to MaxPrs records; the
\* frame of a query has a merged_at column when one of its records has the
\* field.
PrFrames ==
    {[has_merged_at |-> \E k \in 1..Len(r) : ~IsNone(r[k].merged_at), rows |-> r] :
        r \in UNION {[1..n -> PrRecords] : n \in 0..MaxPrs}}

\* The mutant of LeadTimeDays: a pull request that is not merged gets 0.
LeadTimeDaysZeroFill(pr) ==
    IF IsNone(pr.merged_at) THEN Some(Zero)
    ELSE Some(Rat(Value(pr.merged_at) - pr.created_at, UnitsPerDay))

\* (merged_at - created_at).dt.total_seconds() / (3600 * 24); NaT gives NaN.
LeadTimeDays(pr) ==
    IF IsNone(pr.merged_at) THEN None
    ELSE Some(Rat(Value(pr.merged_at) - pr.created_at, UnitsPerDay))

\* calculate_lead_time(pr_df): the frame itself when it is empty or lacks a
\* column, else a copy with the lead_time_days column.
CalculateLeadTime(df) ==
    IF df.rows = << >> \/ ~df.has_merged_at
    THEN [has_lead_time |-> FALSE, rows |-> df.rows, lead_time_days |-> << >>]
    ELSE [has_lead_time |-> TRUE, rows |-> df.rows,
          lead_time_days |-> [k \in 1..Len(df.rows) |-> LeadTimeDays(df.rows[k])]]

\* get_pr_data(..., merged_only=True): the records whose merged_at is set.
IsMerged(pr) == ~IsNone(pr.merged_at)
MergedOnly(rows) == [has_merged_at |-> TRUE, rows |-> SelectSeq(rows, IsMerged)]

\* Series.mean(): the mean of the values that are not NaN, NaN without any.
RECURSIVE SumSkipNa(_, _)
SumSkipNa(xs, k) ==
    IF k = 0 THEN Zero
    ELSE IF IsNone(xs[k]) THEN SumSkipNa(xs, k - 1)
    ELSE RAdd(SumSkipNa(xs, k - 1), Value(xs[k]))
CountNotNa(xs) == Cardinality({k \in 1..Len(xs) : ~IsNone(xs[k])})
MeanSkipNa(xs) ==
    IF CountNotNa(xs) = 0 THEN None
    ELSE Some(RDiv(SumSkipNa(xs, Len(xs)), FromInt(CountNotNa(xs))))

\* The mutant of LeadTimeTier: the bands include their upper bounds.
LeadTimeTierUpperInclusive(avg) ==
    IF IsNone(avg) THEN "Low"
    ELSE IF ~RLess(FromInt(1), Value(avg)) THEN "Elite"
    ELSE IF ~RLess(FromInt(7), Value(avg)) THEN "High"
    ELSE IF ~RLess(FromInt(30), Value(avg)) THEN "Medium"
    ELSE "Low"

\* if avg_lead_time < 1 ... elif < 7 ... elif < 30 ... else; every
\* comparison with NaN is false.
LeadTimeTier(avg) ==
    IF IsNone(avg) THEN "Low"
    ELSE IF RLess(Value(avg), FromInt(1)) THEN "Elite"
    ELSE IF RLess(Value(avg), FromInt(7)) THEN "High"
    ELSE IF RLess(Value(avg), FromInt(30)) THEN "Medium"
    ELSE "Low"

\* render_team_insights, the lead-time column: the merged pull requests of
\* the query, their lead times, the chart (None for a frame that is empty or
\* has no lead_time_days), and the tier of the average below the chart.
LeadInsight(rows) ==
    LET pr_merged_df == MergedOnly(rows)
    IN  IF pr_merged_df.rows = << >> THEN [shown |-> FALSE, avg |-> None, tier |-> ""]
        ELSE LET with_lead == CalculateLeadTime(pr_merged_df)
                 avg == MeanSkipNa(with_lead.lead_time_days)
             IN  IF ~with_lead.has_lead_time
                 THEN [shown |-> FALSE, avg |-> None, tier |-> ""]
                 ELSE [shown |-> TRUE, avg |-> avg, tier |-> LeadTimeTier(avg)]

InitLead ==
    /\ pr_df \in PrFrames
    /\ lead_df = None
    /\ lead_insight = None
    /\ TeamIdle
    /\ TrendIdle
    /\ DeployIdle
    /\ GenIdle

DoCalculateLeadTime ==
    /\ lead_df = None
    /\ lead_df' = Some(CalculateLeadTime(pr_df))
    /\ UNCHANGED <<pr_df, lead_insight>>

DoRenderLeadTime ==
    /\ lead_insight = None
    /\ lead_insight' = Some(LeadInsight(pr_df.rows))
    /\ UNCHANGED <<pr_df, lead_df>>

NextLead ==
    /\ \/ DoCalculateLeadTime
       \/ DoRenderLeadTime
    /\ UNCHANGED <<teamVars, trendVars, deployVars, genVars>>

SpecLead == InitLead /\ [][NextLead]_vars

(***************************************************************************)
(* Lead time: what the claims are stated over                              *)
(***************************************************************************)
LeadResult == Value(lead_df)
HasBothTimes(pr) == ~IsNone(pr.merged_at)
ExpectedLeadTime(pr) == Rat(Value(pr.merged_at) - pr.created_at, UnitsPerDay)

\* C13: the result of calculate_lead_time carries a lead time, merged_at
\* less created_at in days, only for the pull requests that have both
\* times, and a pull request without merged_at is not in the result at all.
C13_UnmergedExcluded ==
    (~IsNone(lead_df) /\ pr_df.has_merged_at) =>
        /\ LeadResult.rows = SelectSeq(pr_df.rows, HasBothTimes)
        /\ \A k \in 1..Len(LeadResult.rows) :
              /\ LeadResult.has_lead_time
              /\ LeadResult.lead_time_days[k] = Some(ExpectedLeadTime(LeadResult.rows[k]))

\* C13, as the code has it: a frame that is empty or has no merged_at column
\* is returned as it came, without lead times; otherwise every pull request
\* stays in the result, in place, with merged_at less created_at in days
\* when it is merged and a missing lead time (never 0) when it is not.
C13_LeadTimeOrMissing ==
    ~IsNone(lead_df) =>
        /\ LeadResult.rows = pr_df.rows
        /\ LeadResult.has_lead_time <=> (pr_df.rows # << >> /\ pr_df.has_merged_at)
        /\ LeadResult.has_lead_time =>
              \A k \in 1..Len(pr_df.rows) :
                 IF HasBothTimes(pr_df.rows[k])
                 THEN LeadResult.lead_time_days[k] = Some(ExpectedLeadTime(pr_df.rows[k]))
                 ELSE LeadResult.lead_time_days[k] = None

C13_Witness ==
    /\ ~IsNone(lead_df)
    /\ LeadResult.has_lead_time
    /\ \E k, l \in 1..Len(pr_df.rows) :
          /\ ~HasBothTimes(pr_df.rows[k])
          /\ LeadResult.lead_time_days[k] = None
          /\ HasBothTimes(pr_df.rows[l])
          /\ LeadResult.lead_time_days[l] = Some(FromInt(7))

Insight == Value(lead_insight)
AvgLeadTime == Value(Insight.avg)

\* C15: the lead-time tier shown is Elite iff the average is below 1 day,
\* High iff it is from 1 to below 7, Medium iff from 7 to below 30, Low iff
\* 30 or more: one tier for every average, with exactly 1 in High, exactly
\* 7 in Medium and exactly 30 in Low.
C15_LeadTimeTiers ==
    (~IsNone(lead_insight) /\ Insight.shown) =>
        /\ ~IsNone(Insight.avg)
        /\ Insight.tier \in {"Elite", "High", "Medium", "Low"}
        /\ Insight.tier = "Elite" <=> RLess(AvgLeadTime, FromInt(1))
        /\ Insight.tier = "High" <=>
              (~RLess(AvgLeadTime, FromInt(1)) /\ RLess(AvgLeadTime, FromInt(7)))
        /\ Insight.tier = "Medium" <=>
              (~RLess(AvgLeadTime, FromInt(7)) /\ RLess(AvgLeadTime, FromInt(30)))
        /\ Insight.tier = "Low" <=> ~RLess(AvgLeadTime, FromInt(30))

C15_Witness ==
    /\ ~IsNone(lead_insight)
    /\ Insight.shown
    /\ Len(pr_df.rows) = 2
    /\ AvgLeadTime = FromInt(7)
    /\ Insight.tier = "Medium"

(***************************************************************************)
(* Deployment frequency: calculate_deployment_frequency of                 *)
(* src/utils/dora_metrics.py and the weekly average and tier of            *)
(* render_team_insights.  A workflow name is its sequence of characters,   *)
(* created_at is a day number since the epoch (day 0 is a Thursday).       *)
(***************************************************************************)
WorkflowNames ==
    { <<"D", "e", "p", "l", "o", "y">>,
      <<"C", "I">>,
      <<"r", "e", "P", "U", "B", "L", "I", "S", "H">>,
      <<"d", "e", "p", "l", "o">> }
Conclusions == {Some("success"), Some("failure"), None}
\* A Thursday, the Sunday of its week, the Monday after, the first of the
\* next month.
RunDays == {0, 3, 4, 31}
Repos == {"r1", "r2"}
WorkflowRun(n, c, d, r) == [workflow_name |-> n, conclusion |-> c, created_at |-> d, repo |-> r]
RunRecords ==
    {WorkflowRun(n, c, d, r) : n \in WorkflowNames, c \in Conclusions, d \in RunDays, r \in Repos}
\* n successful deployments of one repository within one week.
BusyWeek(n) ==
    [k \in 1..n |-> WorkflowRun(<<"D", "e", "p", "l", "o", "y">>, Some("success"), 4 + (k % 7), "r1")]
WorkflowFrames ==
    UNION {[1..n -> RunRecords] : n \in 0..MaxRuns} \cup {BusyWeek(7), BusyWeek(8)}
Periods == {"D", "W", "M"}

\* str.lower()
LowerCase ==
    [c \in {"B", "C", "D", "H", "I", "L", "P", "S", "U"} |->
        CASE c = "B" -> "b" [] c = "C" -> "c" [] c = "D" -> "d" [] c = "H" -> "h"
          [] c = "I" -> "i" [] c = "L" -> "l" [] c = "P" -> "p" [] c = "S" -> "s"
          [] c = "U" -> "u"]
Lower(name) ==
    [k \in 1..Len(name) |-> IF name[k] \in DOMAIN LowerCase THEN LowerCase[name[k]] ELSE name[k]]

deploy_keywords ==
    << <<"d", "e", "p", "l", "o", "y">>,
       <<"r", "e", "l", "e", "a", "s", "e">>,
       <<"p", "u", "b", "l", "i", "s", "h">> >>

\* str.contains('|'.join(deploy_keywords)): a keyword occurs in the name.
Occurs(word, name) ==
    \E i \in 0..(Len(name) - Len(word)) : \A k \in 1..Len(word) : name[i + k] = word[k]
ContainsKeyword(name) ==
    \E w \in 1..Len(deploy_keywords) : Occurs(deploy_keywords[w], name)

\* The mutant of IsDeployment: the name is matched as it is written.
IsDeploymentCaseSensitive(run) ==
    ContainsKeyword(run.workflow_name) /\ run.conclusion = Some("success")

\* The row filter of deployment_runs.
IsDeployment(run) ==
    ContainsKeyword(Lower(run.workflow_name)) /\ run.conclusion = Some("success")

\* dt.to_period(period).dt.start_time: the day itself, the Monday of the
\* week, the first day of the month.
PeriodStart(day, period) ==
    IF period = "D" THEN day
    ELSE IF period = "W" THEN day - ((day + 3) % 7)
    ELSE IF day < 31 THEN 0 ELSE 31

\* 'conclusion' in workflow_df.columns: a record of the query carries it.
HasConclusionColumn(df) == \E k \in 1..Len(df) : ~IsNone(df[k].conclusion)

\* groupby([period_col, 'repo']).size().reset_index(name='deploy_count')
GroupSizes(runs, period) ==
    {[period_start |-> PeriodStart(runs[k].created_at, period), repo |-> runs[k].repo,
      deploy_count |->
          Cardinality({l \in 1..Len(runs) :
              /\ PeriodStart(runs[l].created_at, period) = PeriodStart(runs[k].created_at, period)
              /\ runs[l].repo = runs[k].repo})] : k \in 1..Len(runs)}

\* calculate_deployment_frequency(workflow_df, start_date, end_date, period);
\* the empty set is the empty frame.
CalculateDeploymentFrequency(df, period) ==
    IF df = << >> THEN {}
    ELSE IF ~HasConclusionColumn(df) THEN {}
    ELSE LET deployment_runs == SelectSeq(df, IsDeployment)
         IN  IF deployment_runs = << >> THEN {} ELSE GroupSizes(deployment_runs, period)

\* deploy_freq_df['deploy_count'].sum()
RECURSIVE TotalDeployments(_)
TotalDeployments(table) ==
    IF table = {} THEN 0
    ELSE LET b == CHOOSE b \in table : TRUE
         IN  b.deploy_count + TotalDeployments(table \ {b})
\* The mutant of AvgWeekly: the total is divided by the number of weeks from
\* the first period to the last, those without a deployment included.
AvgWeeklyOverSpan(table) ==
    LET starts == {b.period_start : b \in table}
        first == CHOOSE m \in starts : \A o \in starts : m <= o
        last == CHOOSE m \in starts : \A o \in starts : m >= o
    IN  Rat(TotalDeployments(table), ((last - first) \div 7) + 1)

\* total_deployments / len(deploy_freq_df['w_period'].unique())
AvgWeekly(table) ==
    Rat(TotalDeployments(table), Cardinality({b.period_start : b \in table}))

\* The mutant of DeployTier: the bands exclude their lower bounds.
DeployTierLowerExclusive(avg) ==
    IF RLess(FromInt(7), avg) THEN "Elite"
    ELSE IF RLess(FromInt(1), avg) THEN "High"
    ELSE IF RLess(Rat(1, 4), avg) THEN "Medium"
    ELSE "Low"

\* if avg_weekly >= 7 ... elif >= 1 ... elif >= 0.25 ... else
DeployTier(avg) ==
    IF ~RLess(avg, FromInt(7)) THEN "Elite"
    ELSE IF ~RLess(avg, FromInt(1)) THEN "High"
    ELSE IF ~RLess(avg, Rat(1, 4)) THEN "Medium"
    ELSE "Low"

\* The weekly averages the classification is applied to on its own.
AvgInputs == {Rat(k, 8) : k \in {0, 1, 2, 3, 7, 8, 9, 55, 56, 57}}

\* Either a frame of workflow runs is handed to the derivation, or a weekly
\* average is handed to the classification.
InitDeploy ==
    /\ \/ workflow_df \in WorkflowFrames /\ avg_weekly = None
       \/ workflow_df = << >> /\ avg_weekly \in {Some(a) : a \in AvgInputs}
    /\ deploy_freq = None
    /\ deploy_tier = None
    /\ TeamIdle
    /\ TrendIdle
    /\ LeadIdle
    /\ GenIdle

DoCalculateDeploymentFrequency(period) ==
    /\ deploy_freq = None
    /\ deploy_freq' = Some([period |-> period,
                             table |-> CalculateDeploymentFrequency(workflow_df, period)])
    /\ UNCHANGED <<workflow_df, avg_weekly, deploy_tier>>

\* render_team_insights, the deployment section: the weekly table, and for a
\* table that is not empty the average and its tier.
DoRenderDeployment ==
    /\ avg_weekly = None
    /\ LET deploy_freq_df == CalculateDeploymentFrequency(workflow_df, "W")
       IN  /\ deploy_freq_df # {}
           /\ avg_weekly' = Some(AvgWeekly(deploy_freq_df))
           /\ deploy_tier' = Some(DeployTier(AvgWeekly(deploy_freq_df)))
    /\ UNCHANGED <<workflow_df, deploy_freq>>

\* The classification of lines 288-295 applied to a given average.
DoClassifyDeployment ==
    /\ ~IsNone(avg_weekly)
    /\ deploy_tier = None
    /\ deploy_tier' = Some(DeployTier(Value(avg_weekly)))
    /\ UNCHANGED <<workflow_df, deploy_freq, avg_weekly>>

NextDeploy ==
    /\ \/ \E period \in Periods : DoCalculateDeploymentFrequency(period)
       \/ DoRenderDeployment
       \/ DoClassifyDeployment
    /\ UNCHANGED <<teamVars, trendVars, leadVars, genVars>>

SpecDeploy == InitDeploy /\ [][NextDeploy]_vars

(***************************************************************************)
(* Deployment frequency: what the claims are stated over                   *)
(***************************************************************************)
\* The names of the model that contain deploy, release or publish in some
\* letter case.
DeploymentNames ==
    { <<"D", "e", "p", "l", "o", "y">>,
      <<"r", "e", "P", "U", "B", "L", "I", "S", "H">> }
Qualifies(k) ==
    /\ workflow_df[k].workflow_name \in DeploymentNames
    /\ workflow_df[k].conclusion = Some("success")
QualifyingRuns == {k \in 1..Len(workflow_df) : Qualifies(k)}
\* The start of the period a day falls in: the day, the Monday on or before
\* it (day 4 is a Monday), the first day of its month.
BucketStart(day, period) ==
    CASE period = "D" -> day
      [] period = "W" -> CHOOSE m \in (day - 6)..day : (m - 4) % 7 = 0
      [] period = "M" -> CHOOSE m \in {0, 31} : m <= day /\ day - m < 31
FreqPeriod == Value(deploy_freq).period
FreqTable == Value(deploy_freq).table
RunsOfBucket(b) ==
    {k \in QualifyingRuns :
        /\ BucketStart(workflow_df[k].created_at, FreqPeriod) = b.period_start
        /\ workflow_df[k].repo = b.repo}

\* C14: every run whose name contains a deployment keyword in any letter
\* case and whose conclusion is "success" is counted once, in the bucket of
\* its period start and repository; nothing else is counted, the counts sum
\* to the number of such runs, and without such a run the table is empty.
C14_DeploymentsCountedOnce ==
    ~IsNone(deploy_freq) =>
        /\ \A b \in FreqTable :
              b.deploy_count = Cardinality(RunsOfBucket(b)) /\ b.deploy_count >= 1
        /\ \A k \in QualifyingRuns :
              Cardinality({b \in FreqTable : k \in RunsOfBucket(b)}) = 1
        /\ TotalDeployments(FreqTable) = Cardinality(QualifyingRuns)
        /\ QualifyingRuns = {} => FreqTable = {}

C14_Witness ==
    /\ ~IsNone(deploy_freq)
    /\ FreqPeriod = "W"
    /\ Len(workflow_df) = 2
    /\ workflow_df[1].workflow_name # workflow_df[2].workflow_name
    /\ workflow_df[1].created_at # workflow_df[2].created_at
    /\ FreqTable = {[period_start |-> 0 - 3, repo |-> "r1", deploy_count |-> 2]}

\* C16: the deployment tier is Elite iff the weekly average is 7 or more,
\* High iff it is from 1 to below 7, Medium iff from 0.25 to below 1, Low
\* iff below 0.25: one tier for every average, exactly 1 in High and
\* exactly 0.25 in Medium.
C16_DeploymentTiers ==
    (~IsNone(avg_weekly) /\ ~IsNone(deploy_tier)) =>
        LET avg == Value(avg_weekly)
            tier == Value(deploy_tier)
        IN  /\ tier \in {"Elite", "High", "Medium", "Low"}
            /\ tier = "Elite" <=> ~RLess(avg, FromInt(7))
            /\ tier = "High" <=> (~RLess(avg, FromInt(1)) /\ RLess(avg, FromInt(7)))
            /\ tier = "Medium" <=> (~RLess(avg, Rat(1, 4)) /\ RLess(avg, FromInt(1)))
            /\ tier = "Low" <=> RLess(avg, Rat(1, 4))

C16_Witness ==
    /\ avg_weekly = Some(Rat(1, 4))
    /\ deploy_tier = Some("Medium")

\* C28: in render_team_insights the weekly average, the total of
\* deploy_count over the number of distinct periods of a table that is not
\* empty, is at least 1, so the tier reported is Elite or High, never
\* Medium or Low.
C28_AverageAtLeastOne ==
    (workflow_df # << >> /\ ~IsNone(avg_weekly)) =>
        /\ ~RLess(Value(avg_weekly), FromInt(1))
        /\ deploy_tier \in {Some("Elite"), Some("High")}

\* Two deployments four weeks apart: one a week over five weeks, and the
\* average rendered is 1.
C28_Witness ==
    /\ Len(workflow_df) = 2
    /\ QualifyingRuns = {1, 2}
    /\ workflow_df[1].created_at = 0
    /\ workflow_df[2].created_at = 31
    /\ avg_weekly = Some(FromInt(1))
    /\ deploy_tier = Some("High")

(***************************************************************************)
(* Generator, team assembly: generate_mock_data of src/mock_data.py from   *)
(* the first pass over TEAM_CONFIG to the insert of the Team records.      *)
(* ORG_SIZE is scaled down; team_sizes is indexed in TEAM_CONFIG order;    *)
(* the developer devN is the author N.                                     *)
(***************************************************************************)
\* TEAM_CONFIG: the names in order, and size_pct_range in percent.
TeamNames == <<"Frontend", "Backend", "DevOps", "QA">>
size_pct_range == << <<15, 45>>, <<15, 45>>, <<10, 30>>, <<5, 20>> >>
min_team_size == 3
TeamIndexes == 1..Len(TeamNames)

Max(a, b) == IF a >= b THEN a ELSE b
\* max(min_team_size, int(ORG_SIZE * team_pct)) for team_pct drawn from the
\* range of team t.
SizeOutcomes(t) ==
    {Max(min_team_size, n) :
        n \in ((ORG_SIZE * size_pct_range[t][1]) \div 100)..
              ((ORG_SIZE * size_pct_range[t][2]) \div 100)}
RECURSIVE SumSizes(_, _)
SumSizes(sizes, k) == IF k = 0 THEN 0 ELSE sizes[k] + SumSizes(sizes, k - 1)

\* The outcomes of random.sample(remaining_authors, team_size) the model
\* draws: the first or the last team_size of the remaining authors.
SampleOutcomes(remaining, team_size) ==
    {SubSeq(remaining, 1, team_size),
     SubSeq(remaining, Len(remaining) - team_size + 1, Len(remaining))}
\* The mutant of Without: the sampled members stay in the pool.
WithoutNothing(remaining, members) == remaining

\* remaining_authors.remove(member) for every member of the sample
IsNotIn(members) == [a \in Authors \cup 1..ORG_SIZE |-> a \notin SeqRange(members)]
Without(remaining, members) ==
    LET keep == IsNotIn(members)
        Keep(a) == keep[a]
    IN  SelectSeq(remaining, Keep)

\* The mutant of CanShrink: a team of the minimum size is shrunk too.
CanShrinkAlways(size) == size > 0

\* if team_sizes[team_to_adjust] > min_team_size
CanShrink(size) == size > min_team_size

InitAssembly ==
    /\ gen = [pc |-> "first_pass", team_sizes |-> << >>, total_allocated |-> 0,
              adjustment_needed |-> 0, remaining_authors |-> Run(1, ORG_SIZE),
              teams |-> << >>]
    /\ teams = << >>
    /\ team_data_cache = None
    /\ TEAM_MEMBER_CACHE = None
    /\ th = [t \in Threads |-> Idle]
    /\ written_run = None
    /\ written_pr = None
    /\ reset = [pc |-> "idle", collections |-> << >>, deleted |-> 0, inserted |-> 0]
    /\ TrendIdle
    /\ LeadIdle
    /\ DeployIdle
    /\ RecIdle

\* The first pass: a size for every team, and the adjustment needed.
FirstPass(sizes) ==
    /\ gen.pc = "first_pass"
    /\ gen' = [gen EXCEPT
                 !.team_sizes = sizes,
                 !.total_allocated = SumSizes(sizes, Len(sizes)),
                 !.adjustment_needed = ORG_SIZE - SumSizes(sizes, Len(sizes)),
                 !.pc = "adjust"]
    /\ UNCHANGED <<teams, drawn_author>>

\* One iteration of the while loop, for the team random.choice returned.
Adjust(team_to_adjust) ==
    /\ gen.pc = "adjust"
    /\ gen.adjustment_needed # 0
    /\ gen' = IF gen.adjustment_needed > 0
              THEN [gen EXCEPT !.team_sizes[team_to_adjust] = @ + 1,
                               !.adjustment_needed = @ - 1]
              ELSE IF CanShrink(gen.team_sizes[team_to_adjust])
              THEN [gen EXCEPT !.team_sizes[team_to_adjust] = @ - 1,
                               !.adjustment_needed = @ + 1]
              ELSE gen
    /\ UNCHANGED <<teams, drawn_author>>

\* The sizes are final: the second pass starts.
SizesDone ==
    /\ gen.pc = "adjust"
    /\ gen.adjustment_needed = 0
    /\ gen' = [gen EXCEPT !.pc = "second_pass"]
    /\ UNCHANGED <<teams, drawn_author>>

\* One iteration of the second pass: the roster of the next team, sampled
\* from the remaining authors, or all of them for the last team;
\* random.sample raises when it is asked for more than there are.
CreateTeam ==
    /\ gen.pc = "second_pass"
    /\ Len(gen.teams) < Len(TeamNames)
    /\ LET i == Len(gen.teams) + 1
           team_size == gen.team_sizes[i]
       IN  IF i = Len(TeamNames)
           THEN gen' = [gen EXCEPT
                          !.teams = Append(@, Team(TeamNames[i], gen.remaining_authors))]
           ELSE IF team_size > Len(gen.remaining_authors)
           THEN gen' = [gen EXCEPT !.pc = "raised"]
           ELSE \E team_members \in SampleOutcomes(gen.remaining_authors, team_size) :
                   gen' = [gen EXCEPT
                             !.teams = Append(@, Team(TeamNames[i], team_members)),
                             !.remaining_authors = Without(@, team_members)]
    /\ UNCHANGED <<teams, drawn_author>>

\* Team.objects.insert(teams)
InsertTeams ==
    /\ gen.pc = "second_pass"
    /\ Len(gen.teams) = Len(TeamNames)
    /\ teams' = gen.teams
    /\ gen' = [gen EXCEPT !.pc = "inserted"]
    /\ UNCHANGED drawn_author

\* team_member_map as the second pass leaves it: every member of a roster
\* under the name of the last team that lists it.
team_member_map(ts) ==
    LET listed == UNION {SeqRange(ts[i].members) : i \in 1..Len(ts)}
        LastOf(m) == CHOOSE i \in 1..Len(ts) :
                        /\ m \in SeqRange(ts[i].members)
                        /\ \A j \in (i + 1)..Len(ts) : m \notin SeqRange(ts[j].members)
    IN  [m \in listed |-> ts[LastOf(m)].name]

RecordKinds == {"Issue", "PullRequest", "Commit"}

\* The author of a generated record: a team by weighted_choice, every team
\* having a positive weight, then one of the members the map gives that
\* team; random.choices raises IndexError over an empty list.  The draws of
\* different records do not depend on each other: one record is drawn.
DrawAuthor(kind, team_name) ==
    /\ gen.pc = "inserted"
    /\ IsNone(drawn_author)
    /\ LET map == team_member_map(gen.teams)
           team_members == {member \in DOMAIN map : map[member] = team_name}
       IN  IF team_members = {}
           THEN drawn_author' = Some([kind |-> kind, team_name |-> team_name,
                                      author |-> NoAuthor, raised |-> TRUE])
           ELSE \E author \in team_members :
                   drawn_author' = Some([kind |-> kind, team_name |-> team_name,
                                         author |-> author, raised |-> FALSE])
    /\ UNCHANGED <<gen, teams>>

NextAssembly ==
    /\ \/ \E f \in SizeOutcomes(1), b \in SizeOutcomes(2),
             d \in SizeOutcomes(3), q \in SizeOutcomes(4) : FirstPass(<<f, b, d, q>>)
       \/ \E t \in TeamIndexes : Adjust(t)
       \/ SizesDone
       \/ CreateTeam
       \/ InsertTeams
       \/ \E kind \in RecordKinds, i \in TeamIndexes : DrawAuthor(kind, TeamNames[i])
    /\ UNCHANGED <<team_data_cache, TEAM_MEMBER_CACHE, th, written_run, written_pr, reset>>
    /\ UNCHANGED <<trendVars, leadVars, deployVars>>
    /\ UNCHANGED <<batch, written_commit, written_issue, stamp, bursts>>

SpecAssembly == InitAssembly /\ [][NextAssembly]_vars

\* C17: once the sizes are final every team has at least the minimum size
\* of 3 and the sizes sum to ORG_SIZE, whatever percentages were drawn, and
\* the rosters of the Team records written have exactly those sizes.
C17_SizesSumToOrgSize ==
    /\ gen.pc \in {"second_pass", "inserted"} =>
          /\ \A t \in TeamIndexes : gen.team_sizes[t] >= 3
          /\ SumSizes(gen.team_sizes, Len(TeamNames)) = ORG_SIZE
    /\ gen.pc # "raised"
    /\ gen.pc = "inserted" =>
          /\ Len(teams) = Len(TeamNames)
          /\ \A t \in TeamIndexes :
                /\ teams[t].name = TeamNames[t]
                /\ Len(teams[t].members) = gen.team_sizes[t]

C17_Witness ==
    /\ gen.pc = "inserted"
    /\ gen.total_allocated > ORG_SIZE
    /\ \E t \in TeamIndexes : Len(teams[t].members) = 3
    /\ \E t \in TeamIndexes : Len(teams[t].members) > 3

\* The mapping get_member_team_mapping builds from a frame of teams.
RECURSIVE MappingOfTeams(_, _)
MappingOfTeams(team_df, i) ==
    IF i = 0 THEN EmptyMapping ELSE AddTeam(MappingOfTeams(team_df, i - 1), team_df[i])
RostersOf(a) == {i \in 1..Len(teams) : a \in SeqRange(teams[i].members)}

\* C30: the generated rosters are not empty, pairwise disjoint and cover
\* dev1..devN; the author drawn for an Issue, a PullRequest or a Commit is
\* in exactly one of them, and the mapping built from the generated teams
\* gives the author that team, never the default team.
C30_AuthorsInOneRoster ==
    gen.pc = "inserted" =>
        /\ \A i \in 1..Len(teams) : teams[i].members # << >>
        /\ \A a \in 1..ORG_SIZE : Cardinality(RostersOf(a)) = 1
        /\ \A i \in 1..Len(teams) : SeqRange(teams[i].members) \subseteq 1..ORG_SIZE
        /\ ~IsNone(drawn_author) =>
              LET d == Value(drawn_author)
              IN  /\ ~d.raised
                  /\ Cardinality(RostersOf(d.author)) = 1
                  /\ MappedTeam(MappingOfTeams(teams, Len(teams)), d.author) = d.team_name
                  /\ d.team_name # DefaultTeam

\* A commit author drawn from the last team, whose roster is what remained.
C30_Witness ==
    /\ gen.pc = "inserted"
    /\ ~IsNone(drawn_author)
    /\ Value(drawn_author).kind = "Commit"
    /\ Value(drawn_author).team_name = "QA"
    /\ Value(drawn_author).author \in SeqRange(teams[4].members)
    /\ Len(teams[4].members) > min_team_size

(***************************************************************************)
(* The redistribution loop of the team sizes for every configured          *)
(* organization size from one below 4 * min_team_size up to ORG_SIZE.      *)
(* The size of the organization is the number of authors, which            *)
(* remaining_authors holds until the second pass.                          *)
(***************************************************************************)
OrgSizes == (Len(TeamNames) * min_team_size - 1)..ORG_SIZE

\* max(min_team_size, int(org_size * team_pct)) as in SizeOutcomes, for an
\* organization of org_size members.
SizeOutcomesFor(org_size, t) ==
    {Max(min_team_size, n) :
        n \in ((org_size * size_pct_range[t][1]) \div 100)..
              ((org_size * size_pct_range[t][2]) \div 100)}

InitRedistribute ==
    /\ \E org_size \in OrgSizes :
          gen = [pc |-> "first_pass", team_sizes |-> << >>, total_allocated |-> 0,
                 adjustment_needed |-> 0, remaining_authors |-> Run(1, org_size),
                 teams |-> << >>]
    /\ teams = << >>
    /\ team_data_cache = None
    /\ TEAM_MEMBER_CACHE = None
    /\ th = [t \in Threads |-> Idle]
    /\ written_run = None
    /\ written_pr = None
    /\ reset = [pc |-> "idle", collections |-> << >>, deleted |-> 0, inserted |-> 0]
    /\ TrendIdle
    /\ LeadIdle
    /\ DeployIdle
    /\ RecIdle

\* The first pass for an organization of org_size members.
FirstPassFor(org_size, sizes) ==
    /\ gen.pc = "first_pass"
    /\ Len(gen.remaining_authors) = org_size
    /\ gen' = [gen EXCEPT
                 !.team_sizes = sizes,
                 !.total_allocated = SumSizes(sizes, Len(sizes)),
                 !.adjustment_needed = org_size - SumSizes(sizes, Len(sizes)),
                 !.pc = "adjust"]
    /\ UNCHANGED <<teams, drawn_author>>

NextRedistribute ==
    /\ \/ \E org_size \in OrgSizes :
             \E f \in SizeOutcomesFor(org_size, 1), b \in SizeOutcomesFor(org_size, 2),
                d \in SizeOutcomesFor(org_size, 3), q \in SizeOutcomesFor(org_size, 4) :
                   FirstPassFor(org_size, <<f, b, d, q>>)
       \/ \E t \in TeamIndexes : Adjust(t)
       \/ SizesDone
    /\ UNCHANGED <<team_data_cache, TEAM_MEMBER_CACHE, th, written_run, written_pr, reset>>
    /\ UNCHANGED <<trendVars, leadVars, deployVars>>
    /\ UNCHANGED recVars

\* The generator runs on, and random.choice does not keep away for ever
\* from the teams whose size can change.
SpecRedistribute ==
    /\ InitRedistribute
    /\ [][NextRedistribute]_vars
    /\ WF_vars(NextRedistribute)

\* C23: for every configured organization size and all sampled percentages
\* the redistribution loop terminates under a fair choice of teams, and it
\* never takes a team below the minimum size.
C23_RedistributionTerminates ==
    /\ [](gen.pc \in {"adjust", "second_pass"} =>
             \A t \in TeamIndexes : gen.team_sizes[t] >= min_team_size)
    /\ (gen.pc = "adjust") ~> (gen.pc = "second_pass")

(***************************************************************************)
(* WorkflowRun records as written: by generate_mock_data of                *)
(* src/mock_data.py and by collect_github_data of src/data_collector.py.   *)
(* Timestamps are whole numbers of ticks, the resolution of a datetime;    *)
(* durations are in ticks too and may have a fraction.                     *)
(***************************************************************************)
\* The mutant of RoundHalfEven: the fraction of a tick is cut off.
RoundDown(x) == x.num \div x.den

\* timedelta(seconds=x) for x >= 0: x rounded to the nearest tick, a tie to
\* the even tick.
RoundHalfEven(x) ==
    LET q == x.num \div x.den
        rem == x.num % x.den
    IN  IF 2 * rem > x.den \/ (2 * rem = x.den /\ q % 2 = 1) THEN q + 1 ELSE q

\* The outcomes of long_tail_distribution: durations in quarters of a tick.
DelayOutcomes == {Rat(k, 4) : k \in 0..(4 * MaxDelay)}
RunCreatedTimes == {0, 1}

\* The WorkflowRun the generator builds for a created_date and the two
\* durations drawn (lines 1179-1196 and 1292-1306).
GeneratedRun(created_date, pickup_delay, execution_time) ==
    LET started_date == created_date + RoundHalfEven(pickup_delay)
        completed_date == started_date + RoundHalfEven(execution_time)
    IN  [source |-> "generator",
         created_at |-> Some(created_date),
         started_at |-> Some(started_date),
         completed_at |-> Some(completed_date),
         pickup_time_seconds |-> Some(pickup_delay),
         execution_time_seconds |-> Some(execution_time)]

\* The WorkflowRun the collector upserts for a run of the API, whose
\* run_started_at and updated_at may be missing (lines 236-269).
CollectedRun(created_at, run_started_at, updated_at) ==
    [source |-> "collector",
     created_at |-> Some(created_at),
     started_at |-> run_started_at,
     completed_at |-> updated_at,
     pickup_time_seconds |->
         IF ~IsNone(run_started_at)
         THEN Some(FromInt(Value(run_started_at) - created_at)) ELSE None,
     execution_time_seconds |->
         IF ~IsNone(run_started_at) /\ ~IsNone(updated_at)
         THEN Some(FromInt(Value(updated_at) - Value(run_started_at))) ELSE None]

InitRunWrite ==
    /\ written_run = None
    /\ gen = [pc |-> "idle", team_sizes |-> << >>, total_allocated |-> 0,
              adjustment_needed |-> 0, remaining_authors |-> << >>, teams |-> << >>]
    /\ written_pr = None
    /\ reset = [pc |-> "idle", collections |-> << >>, deleted |-> 0, inserted |-> 0]
    /\ TeamIdle
    /\ TrendIdle
    /\ LeadIdle
    /\ DeployIdle
    /\ RecIdle

GenerateWorkflowRun(created_date, pickup_delay, execution_time) ==
    written_run' = Some(GeneratedRun(created_date, pickup_delay, execution_time))

CollectWorkflowRun(created_at, run_started_at, updated_at) ==
    written_run' = Some(CollectedRun(created_at, run_started_at, updated_at))

NextRunWrite ==
    /\ \/ \E c \in RunCreatedTimes, p \in DelayOutcomes, e \in DelayOutcomes :
             GenerateWorkflowRun(c, p, e)
       \/ \E c \in RunCreatedTimes :
             \E s \in {None} \cup {Some(c + d) : d \in 0..MaxDelay} :
                \E u \in {None} \cup {Some(c + d) : d \in 0..(2 * MaxDelay)} :
                   CollectWorkflowRun(c, s, u)
    /\ UNCHANGED <<gen, written_pr, reset>>
    /\ UNCHANGED <<teamVars, trendVars, leadVars, deployVars>>
    /\ UNCHANGED recVars

SpecRunWrite == InitRunWrite /\ [][NextRunWrite]_vars

WrittenRun == Value(written_run)
\* later - earlier of two timestamps that are both present
Elapsed(later, earlier) == FromInt(Value(later) - Value(earlier))
\* 2 * |a - b| <= 1: a and b are within half a tick
WithinHalfTick(a, b) ==
    LET d == RSub(a, b) IN 2 * Abs(d.num) <= d.den

\* C18: in every WorkflowRun written, pickup_time_seconds is started_at less
\* created_at and execution_time_seconds is completed_at less started_at
\* when both timestamps are present, and the field is null otherwise.
C18_DurationsEqualDifferences ==
    ~IsNone(written_run) =>
        /\ IF ~IsNone(WrittenRun.created_at) /\ ~IsNone(WrittenRun.started_at)
           THEN WrittenRun.pickup_time_seconds
                    = Some(Elapsed(WrittenRun.started_at, WrittenRun.created_at))
           ELSE WrittenRun.pickup_time_seconds = None
        /\ IF ~IsNone(WrittenRun.started_at) /\ ~IsNone(WrittenRun.completed_at)
           THEN WrittenRun.execution_time_seconds
                    = Some(Elapsed(WrittenRun.completed_at, WrittenRun.started_at))
           ELSE WrittenRun.execution_time_seconds = None

\* C18, as the code has it: a collected run has exactly the differences, or
\* null without both timestamps; a generated run has all three timestamps
\* and its two durations are the differences up to the rounding of the
\* timestamps, within half a tick.
C18_DurationsWithinResolution ==
    ~IsNone(written_run) =>
        IF WrittenRun.source = "collector"
        THEN /\ IF ~IsNone(WrittenRun.created_at) /\ ~IsNone(WrittenRun.started_at)
                THEN WrittenRun.pickup_time_seconds
                         = Some(Elapsed(WrittenRun.started_at, WrittenRun.created_at))
                ELSE WrittenRun.pickup_time_seconds = None
             /\ IF ~IsNone(WrittenRun.started_at) /\ ~IsNone(WrittenRun.completed_at)
                THEN WrittenRun.execution_time_seconds
                         = Some(Elapsed(WrittenRun.completed_at, WrittenRun.started_at))
                ELSE WrittenRun.execution_time_seconds = None
        ELSE /\ ~IsNone(WrittenRun.started_at) /\ ~IsNone(WrittenRun.completed_at)
             /\ ~IsNone(WrittenRun.pickup_time_seconds)
             /\ ~IsNone(WrittenRun.execution_time_seconds)
             /\ WithinHalfTick(Value(WrittenRun.pickup_time_seconds),
                               Elapsed(WrittenRun.started_at, WrittenRun.created_at))
             /\ WithinHalfTick(Value(WrittenRun.execution_time_seconds),
                               Elapsed(WrittenRun.completed_at, WrittenRun.started_at))

C18_Witness ==
    /\ ~IsNone(written_run)
    /\ WrittenRun.source = "generator"
    /\ WrittenRun.pickup_time_seconds = Some(Rat(3, 4))
    /\ WrittenRun.started_at = Some(Value(WrittenRun.created_at) + 1)
    /\ WrittenRun.execution_time_seconds = Some(Rat(5, 4))

(***************************************************************************)
(* PullRequest records as generated by generate_mock_data of               *)
(* src/mock_data.py, lines 720-868.  Time is counted in hours.             *)
(***************************************************************************)
\* The mutant of ClampComplexity: the drawn factor is used as it is.
NoClamp(x) == x

\* max(0.3, min(complexity_factor, 3.5))
ClampComplexity(x) ==
    LET capped == IF RLess(Rat(7, 2), x) THEN Rat(7, 2) ELSE x
    IN  IF RLess(capped, Rat(3, 10)) THEN Rat(3, 10) ELSE capped

\* int(x): the fraction is dropped, towards zero.
IntTrunc(x) ==
    IF x.num >= 0 THEN x.num \div x.den ELSE 0 - ((0 - x.num) \div x.den)

\* The outcomes of np.random.normal(1.0, 0.6), of random.randint(1, 48),
\* random.randint(72, 240) and random.randint(24, 72), and of random_date.
ComplexityDraws == {Rat(0 - 1, 2), Rat(1, 5), Rat(1, 1), Rat(3, 2), Rat(4, 1)}
BaseReviewTimes == {1, 2, 48}
OutlierReviewTimes == {72, 240}
ReopenHours == {24, 72}
PrCreatedDates == {0, 1, 2}

ReviewTimeHours(review_time_outlier, outlier_hours, base_review_time, complexity_factor) ==
    IF review_time_outlier
    THEN outlier_hours
    ELSE IntTrunc(RMul(FromInt(base_review_time), complexity_factor))

\* The PullRequest built from the draws of one iteration.
GeneratedPr(created_date, review_time_hours, is_closed_draw, is_merged_draw, reopened, reopen_hours) ==
    LET is_closed == is_closed_draw
        is_merged == is_closed /\ is_merged_draw
        closed_date == IF is_closed
                       THEN Some(created_date + review_time_hours
                                    + (IF reopened THEN reopen_hours ELSE 0))
                       ELSE None
        merged_date == IF is_merged THEN closed_date ELSE None
    IN  [created_at |-> created_date,
         closed_at |-> closed_date,
         merged_at |-> merged_date,
         state |-> IF is_closed THEN "closed" ELSE "open"]

InitPrWrite ==
    /\ written_pr = None
    /\ gen = [pc |-> "idle", team_sizes |-> << >>, total_allocated |-> 0,
              adjustment_needed |-> 0, remaining_authors |-> << >>, teams |-> << >>]
    /\ written_run = None
    /\ reset = [pc |-> "idle", collections |-> << >>, deleted |-> 0, inserted |-> 0]
    /\ TeamIdle
    /\ TrendIdle
    /\ LeadIdle
    /\ DeployIdle
    /\ RecIdle

GeneratePullRequest(created_date, drawn_factor, review_time_outlier, outlier_hours, base_review_time, is_closed_draw, is_merged_draw, reopened, reopen_hours) ==
    LET complexity_factor == ClampComplexity(drawn_factor)
        review_time_hours == ReviewTimeHours(review_time_outlier, outlier_hours,
                                             base_review_time, complexity_factor)
    IN  written_pr' = Some(GeneratedPr(created_date, review_time_hours,
                                       is_closed_draw, is_merged_draw,
                                       reopened, reopen_hours))

NextPrWrite ==
    /\ \E created_date \in PrCreatedDates, drawn_factor \in ComplexityDraws,
          review_time_outlier \in BOOLEAN, outlier_hours \in OutlierReviewTimes,
          base_review_time \in BaseReviewTimes,
          is_closed_draw \in BOOLEAN, is_merged_draw \in BOOLEAN,
          reopened \in BOOLEAN, reopen_hours \in ReopenHours :
             GeneratePullRequest(created_date, drawn_factor, review_time_outlier,
                                 outlier_hours, base_review_time, is_closed_draw,
                                 is_merged_draw, reopened, reopen_hours)
    /\ UNCHANGED <<gen, written_run, reset>>
    /\ UNCHANGED <<teamVars, trendVars, leadVars, deployVars>>
    /\ UNCHANGED recVars

SpecPrWrite == InitPrWrite /\ [][NextPrWrite]_vars

WrittenPr == Value(written_pr)

\* C19: in every generated PullRequest, merged_at present implies closed_at
\* present and equal to it; state is "closed" exactly when closed_at is
\* present and "open" otherwise; closed_at is never before created_at.
C19_PrFieldsConsistent ==
    ~IsNone(written_pr) =>
        /\ ~IsNone(WrittenPr.merged_at) =>
               (~IsNone(WrittenPr.closed_at) /\ WrittenPr.merged_at = WrittenPr.closed_at)
        /\ WrittenPr.state \in {"open", "closed"}
        /\ (WrittenPr.state = "closed") <=> ~IsNone(WrittenPr.closed_at)
        /\ ~IsNone(WrittenPr.closed_at) =>
               Value(WrittenPr.closed_at) >= WrittenPr.created_at

\* A merged pull request whose review took no time at all: base 1 hour at
\* the lowest complexity gives int(0.3) = 0 hours.
C19_Witness ==
    /\ ~IsNone(written_pr)
    /\ ~IsNone(WrittenPr.merged_at)
    /\ WrittenPr.closed_at = Some(WrittenPr.created_at)
    /\ WrittenPr.state = "closed"

(***************************************************************************)
(* The reset at the head of generate_mock_data of src/mock_data.py (lines  *)
(* 288-300) and the inserts that follow it.  A collection of the store is  *)
(* the set of the sorts of record it holds: records of an earlier run      *)
(* whose primary keys the generator will use again, records of an earlier  *)
(* run with other keys, and records of the current run.                    *)
(***************************************************************************)
DeleteOrder == <<"WorkflowRun", "PullRequest", "Issue", "Commit", "Team", "Repository">>
InsertOrder == <<"Team", "Repository", "Issue", "PullRequest", "Commit", "WorkflowRun">>
KindIndex(kind) == CHOOSE i \in 1..Len(DeleteOrder) : DeleteOrder[i] = kind

\* The kinds whose generated primary keys are the same in every run:
\* team_id, repo_id and pr_id count from 1, issue_key is project and number;
\* a commit sha carries the time and a run_id is drawn at random.
FixedKeyKinds == {"Team", "Repository", "PullRequest", "Issue"}

EarlierContents(kind) ==
    IF kind \in FixedKeyKinds
    THEN {{}, {"earlier_other_key"}, {"earlier_same_key"}}
    ELSE {{}, {"earlier_other_key"}}

InitReset ==
    /\ \E c1 \in EarlierContents(DeleteOrder[1]), c2 \in EarlierContents(DeleteOrder[2]),
          c3 \in EarlierContents(DeleteOrder[3]), c4 \in EarlierContents(DeleteOrder[4]),
          c5 \in EarlierContents(DeleteOrder[5]), c6 \in EarlierContents(DeleteOrder[6]) :
             reset = [pc |-> "clearing", collections |-> <<c1, c2, c3, c4, c5, c6>>,
                      deleted |-> 0, inserted |-> 0]
    /\ gen = [pc |-> "idle", team_sizes |-> << >>, total_allocated |-> 0,
              adjustment_needed |-> 0, remaining_authors |-> << >>, teams |-> << >>]
    /\ written_run = None
    /\ written_pr = None
    /\ TeamIdle
    /\ TrendIdle
    /\ LeadIdle
    /\ DeployIdle
    /\ RecIdle

\* <Kind>.objects.delete() returns: the collection is empty; after the last
\* of the six the try block is left.
DeleteReturns ==
    /\ reset.pc = "clearing"
    /\ reset' = [reset EXCEPT
                    !.collections[reset.deleted + 1] = {},
                    !.deleted = reset.deleted + 1,
                    !.pc = IF reset.deleted + 1 = Len(DeleteOrder)
                           THEN "generating" ELSE "clearing"]

\* <Kind>.objects.delete() raises: the except clause prints a warning and
\* generation goes on, the remaining deletes are skipped.
DeleteRaises ==
    /\ reset.pc = "clearing"
    /\ reset' = [reset EXCEPT !.pc = "generating"]

\* <Kind>.objects.insert(...) of the next kind: a record of the store with
\* a primary key of the batch makes the insert raise, and nothing catches it.
InsertKind ==
    /\ reset.pc = "generating"
    /\ LET k == KindIndex(InsertOrder[reset.inserted + 1])
       IN  IF "earlier_same_key" \in reset.collections[k]
           THEN reset' = [reset EXCEPT !.pc = "raised"]
           ELSE reset' = [reset EXCEPT
                             !.collections[k] = reset.collections[k] \cup {"current"},
                             !.inserted = reset.inserted + 1,
                             !.pc = IF reset.inserted + 1 = Len(InsertOrder)
                                    THEN "done" ELSE "generating"]

NextReset ==
    /\ \/ DeleteReturns
       \/ DeleteRaises
       \/ InsertKind
    /\ UNCHANGED <<gen, written_run, written_pr>>
    /\ UNCHANGED <<teamVars, trendVars, leadVars, deployVars>>
    /\ UNCHANGED recVars

SpecReset == InitReset /\ [][NextReset]_vars

HoldsCurrent ==
    \E i \in 1..Len(reset.collections) : "current" \in reset.collections[i]
HoldsEarlier ==
    \E i \in 1..Len(reset.collections) :
        reset.collections[i] \cap {"earlier_same_key", "earlier_other_key"} # {}

\* C20: generate_mock_data clears before it regenerates: once a record of
\* the run is in the store, no collection holds a record of an earlier run,
\* in every execution, those where a delete raises included.
C20_ClearedBeforeInsert == HoldsCurrent => ~HoldsEarlier

(***************************************************************************)
(* Generator, batched inserts: the loops of generate_mock_data over the    *)
(* repositories and the records of one kind, with the list all_<kind>      *)
(* flushed to <Kind>.objects.insert when it holds BATCH_SIZE records and   *)
(* once more after the loops.  BATCH_SIZE and the counts per repository    *)
(* are scaled down; a record is its place in generation order and the      *)
(* outcome of its random draws.                                            *)
(***************************************************************************)
REPOS == <<"frontend", "backend", "infra">>
BatchedKinds == {"Issue", "PullRequest", "Commit", "WorkflowRun"}
PerRepoCounts == 1..MaxPerRepo
DrawOutcomes == 0..MaxDraw
PROJECT_KEYS == <<"FE", "BE", "INFRA">>

\* The identity of the record i (from 0) of the repository repo_idx (from
\* 0): issue_key is the project key and i + 1 + repo_idx * ISSUES_PER_REPO,
\* pr_id is i + 1 + repo_idx * PRS_PER_REPO, a sha is the repository path,
\* i and the clock, and run_id is uuid.uuid4().int % 10 ** 10, the modulus
\* scaled down to RunIdModulus.
Identity(kind, repo_idx, i, per_repo, draw) ==
    CASE kind = "Issue" -> <<PROJECT_KEYS[repo_idx + 1], i + 1 + repo_idx * per_repo>>
      [] kind = "PullRequest" -> <<"pr_id", i + 1 + repo_idx * per_repo>>
      [] kind = "Commit" -> <<REPOS[repo_idx + 1], i>>
      [] kind = "WorkflowRun" -> <<"run_id", draw % RunIdModulus>>

\* The mutant of BatchFull: the list is flushed one record late.
BatchFullLate(n) == n > BATCH_SIZE

\* if len(all_issues) >= BATCH_SIZE
BatchFull(n) == n >= BATCH_SIZE

InitBatch ==
    /\ \E kind \in BatchedKinds, per_repo \in PerRepoCounts :
          batch = [pc |-> "loop", kind |-> kind, per_repo |-> per_repo,
                   generated |-> 0, pending |-> << >>, calls |-> << >>]
    /\ drawn_author = << >>
    /\ written_commit = << >>
    /\ written_issue = << >>
    /\ stamp = << >>
    /\ bursts = << >>
    /\ gen = [pc |-> "idle", team_sizes |-> << >>, total_allocated |-> 0,
              adjustment_needed |-> 0, remaining_authors |-> << >>, teams |-> << >>]
    /\ written_run = None
    /\ written_pr = None
    /\ reset = [pc |-> "idle", collections |-> << >>, deleted |-> 0, inserted |-> 0]
    /\ TeamIdle
    /\ TrendIdle
    /\ LeadIdle
    /\ DeployIdle

\* One iteration of the inner loop: the record is built and appended, and
\* a full list is handed to insert and replaced by an empty one.
GenerateRecord(draw) ==
    /\ batch.pc = "loop"
    /\ batch.generated < batch.per_repo * Len(REPOS)
    /\ LET repo_idx == batch.generated \div batch.per_repo
           i == batch.generated % batch.per_repo
           record == [n |-> batch.generated + 1, draw |-> draw,
                      id |-> Identity(batch.kind, repo_idx, i, batch.per_repo, draw)]
           appended == Append(batch.pending, record)
       IN  batch' = [batch EXCEPT
                        !.generated = @ + 1,
                        !.pending = IF BatchFull(Len(appended)) THEN << >> ELSE appended,
                        !.calls = IF BatchFull(Len(appended)) THEN Append(@, appended) ELSE @]

\* After the loops: if all_issues: Issue.objects.insert(all_issues)
InsertRemaining ==
    /\ batch.pc = "loop"
    /\ batch.generated = batch.per_repo * Len(REPOS)
    /\ batch' = [batch EXCEPT
                    !.pc = "done",
                    !.calls = IF batch.pending # << >> THEN Append(@, batch.pending) ELSE @]

NextBatch ==
    /\ \/ \E draw \in DrawOutcomes : GenerateRecord(draw)
       \/ InsertRemaining
    /\ UNCHANGED <<drawn_author, written_commit, written_issue, stamp, bursts>>
    /\ UNCHANGED <<gen, written_run, written_pr, reset>>
    /\ UNCHANGED <<teamVars, trendVars, leadVars, deployVars>>

SpecBatch == InitBatch /\ [][NextBatch]_vars

\* The records of the insert calls so far, one call after the other.
RECURSIVE Inserted(_, _)
Inserted(calls, k) == IF k = 0 THEN << >> ELSE Inserted(calls, k - 1) \o calls[k]
InsertedSoFar == Inserted(batch.calls, Len(batch.calls))

\* C21: every generated record is passed to the store in exactly one insert
\* call, in generation order; every call carries 1 to BATCH_SIZE records
\* and all but the final call of a completed run carry exactly BATCH_SIZE;
\* a completed run has inserted the count per repository times the number
\* of repositories, whatever was drawn.
C21_BatchedInserts ==
    /\ \A c \in 1..Len(batch.calls) :
          /\ Len(batch.calls[c]) >= 1
          /\ Len(batch.calls[c]) <= BATCH_SIZE
          /\ (c < Len(batch.calls) \/ batch.pc = "loop") => Len(batch.calls[c]) = BATCH_SIZE
    /\ LET all == IF batch.pc = "loop" THEN InsertedSoFar \o batch.pending
                  ELSE InsertedSoFar
       IN  /\ Len(all) = batch.generated
           /\ \A k \in 1..Len(all) : all[k].n = k
    /\ batch.pc = "done" =>
          /\ Len(InsertedSoFar) = batch.per_repo * 3
          /\ \A k \in 1..(batch.per_repo * 3) :
                Cardinality({i \in 1..Len(InsertedSoFar) : InsertedSoFar[i].n = k}) = 1

\* Nine records in batches of two: four full calls and a remainder of one.
C21_Witness ==
    /\ batch.pc = "done"
    /\ batch.kind = "WorkflowRun"
    /\ Len(batch.calls) >= 3
    /\ Len(batch.calls[Len(batch.calls)]) = 1
    /\ Len(batch.calls[1]) = BATCH_SIZE

\* Every record generated so far, inserted or waiting in the list.
GeneratedSoFar ==
    IF batch.pc = "loop" THEN InsertedSoFar \o batch.pending ELSE InsertedSoFar

\* C22: within one run no two generated records of a kind have the same
\* identity value, whatever is drawn, so no insert hits a duplicate key.
C22_IdentitiesUnique ==
    \A k, l \in 1..Len(GeneratedSoFar) :
        GeneratedSoFar[k].id = GeneratedSoFar[l].id => k = l

(***************************************************************************)
(* Generator, commit messages: the pull request loop of generate_mock_data *)
(* (one pull request per repository here), which leaves its locals behind, *)
(* and then the commit loop, which reads linked_issue_key.                 *)
(***************************************************************************)
IssueKey(project_key, issue_id) == [project_key |-> project_key, issue_id |-> issue_id]

\* The outcomes of lines 776-788 for a pull request of the repository
\* repo_idx (from 0): no linked issue, or the key of one of the issues of
\* that repository, issue_id_to_key holding every issue generated.
LinkOutcomes(repo_idx) ==
    {None} \cup {Some(IssueKey(PROJECT_KEYS[repo_idx + 1], issue_idx + 1 + repo_idx * IssuesPerRepo)) :
                    issue_idx \in 0..(IssuesPerRepo - 1)}

\* if linked_issue_key: "[key] ..." elif linked_pr_id: "[PR-id] ..." else
\* the message content alone.
MessageTag(linked_issue_key, linked_pr_id) ==
    IF ~IsNone(linked_issue_key) THEN [issue |-> linked_issue_key, pr |-> None]
    ELSE IF ~IsNone(linked_pr_id) THEN [issue |-> None, pr |-> linked_pr_id]
    ELSE [issue |-> None, pr |-> None]

InitCommitWrite ==
    /\ written_commit = [pc |-> "prs", prs |-> << >>, linked_issue_key |-> None,
                         commit |-> None]
    /\ drawn_author = << >>
    /\ batch = << >>
    /\ written_issue = << >>
    /\ stamp = << >>
    /\ bursts = << >>
    /\ gen = [pc |-> "idle", team_sizes |-> << >>, total_allocated |-> 0,
              adjustment_needed |-> 0, remaining_authors |-> << >>, teams |-> << >>]
    /\ written_run = None
    /\ written_pr = None
    /\ reset = [pc |-> "idle", collections |-> << >>, deleted |-> 0, inserted |-> 0]
    /\ TeamIdle
    /\ TrendIdle
    /\ LeadIdle
    /\ DeployIdle

\* One iteration of the pull request loop, for the next repository: pr_id
\* is i + 1 + repo_idx * PRS_PER_REPO with one pull request per repository;
\* linked_issue_key is a local of the function and keeps its last value.
GeneratePrLink(link) ==
    /\ written_commit.pc = "prs"
    /\ LET repo_idx == Len(written_commit.prs)
       IN  /\ link \in LinkOutcomes(repo_idx)
           /\ written_commit' = [written_commit EXCEPT
                 !.prs = Append(@, [pr_id |-> repo_idx + 1, repo_idx |-> repo_idx,
                                    linked_issue_key |-> link]),
                 !.linked_issue_key = link,
                 !.pc = IF repo_idx + 1 = Len(REPOS) THEN "commits" ELSE "prs"]

\* One iteration of the commit loop for the repository repo_idx: a commit
\* linked to the pull request of its repository or to none, and its message.
GenerateCommit(repo_idx, linked) ==
    /\ written_commit.pc = "commits"
    /\ LET linked_pr_id == IF linked THEN Some(written_commit.prs[repo_idx + 1].pr_id)
                           ELSE None
       IN  written_commit' = [written_commit EXCEPT
              !.commit = Some([repo_idx |-> repo_idx, linked_pr_id |-> linked_pr_id,
                               tag |-> MessageTag(written_commit.linked_issue_key,
                                                  linked_pr_id)])]

NextCommitWrite ==
    /\ \/ \E link \in UNION {LinkOutcomes(r) : r \in 0..(Len(REPOS) - 1)} :
             GeneratePrLink(link)
       \/ \E repo_idx \in 0..(Len(REPOS) - 1), linked \in BOOLEAN :
             GenerateCommit(repo_idx, linked)
    /\ UNCHANGED <<drawn_author, batch, written_issue, stamp, bursts>>
    /\ UNCHANGED <<gen, written_run, written_pr, reset>>
    /\ UNCHANGED <<teamVars, trendVars, leadVars, deployVars>>

SpecCommitWrite == InitCommitWrite /\ [][NextCommitWrite]_vars

TheCommit == Value(written_commit.commit)
\* The pull request a commit is linked to.
LinkedPr == written_commit.prs[Value(TheCommit.linked_pr_id)]

\* C24: a commit with no linked pull request has no tag; a commit linked to
\* a pull request carries the issue key linked to that pull request if it
\* has one and else the id of that pull request; an issue key used belongs
\* to the repository of the commit.
C24_TagFollowsLinkedPr ==
    (written_commit.pc = "commits" /\ ~IsNone(written_commit.commit)) =>
        /\ IsNone(TheCommit.linked_pr_id) =>
              TheCommit.tag = [issue |-> None, pr |-> None]
        /\ ~IsNone(TheCommit.linked_pr_id) =>
              IF ~IsNone(LinkedPr.linked_issue_key)
              THEN TheCommit.tag = [issue |-> LinkedPr.linked_issue_key, pr |-> None]
              ELSE TheCommit.tag = [issue |-> None, pr |-> TheCommit.linked_pr_id]
        /\ ~IsNone(TheCommit.tag.issue) =>
              Value(TheCommit.tag.issue).project_key = PROJECT_KEYS[TheCommit.repo_idx + 1]

(***************************************************************************)
(* Generator, issues: the hour of day of created_at and the author of the  *)
(* record, lines 435-455 and 589-623 and 677 of src/mock_data.py, for an   *)
(* organization of NumDevs developers.                                     *)
(***************************************************************************)
Devs == 1..NumDevs
\* work_pattern of generate_developer_characteristics: random.choice([0, 1, 1, 1, 2])
WorkPatternCodes == {0, 1, 2}

\* "business" unless the developer's work_pattern is 0 or 2.
WorkPatternOf(dev_char) ==
    IF dev_char = 0 THEN "distributed"
    ELSE IF dev_char = 2 THEN "night_owl"
    ELSE "business"

InitIssueWrite ==
    /\ \E dev_characteristics \in [Devs -> WorkPatternCodes] :
          written_issue = [dev_characteristics |-> dev_characteristics, issue |-> None]
    /\ drawn_author = << >>
    /\ batch = << >>
    /\ written_commit = << >>
    /\ stamp = << >>
    /\ bursts = << >>
    /\ gen = [pc |-> "idle", team_sizes |-> << >>, total_allocated |-> 0,
              adjustment_needed |-> 0, remaining_authors |-> << >>, teams |-> << >>]
    /\ written_run = None
    /\ written_pr = None
    /\ reset = [pc |-> "idle", collections |-> << >>, deleted |-> 0, inserted |-> 0]
    /\ TeamIdle
    /\ TrendIdle
    /\ LeadIdle
    /\ DeployIdle

\* One iteration of the issue loop: first_author is the outcome of
\* author = random.choice(authors) at line 439, whose characteristics give
\* the work pattern of the hour drawn; team_author is the outcome of the
\* weighted draw from the chosen team at lines 618-621, which replaces
\* author before the Issue is built with author=author.
GenerateIssue(first_author, team_author) ==
    LET author_at_439 == first_author
        dev_char == written_issue.dev_characteristics[author_at_439]
        work_pattern == WorkPatternOf(dev_char)
        author == team_author
    IN  written_issue' = [written_issue EXCEPT
            !.issue = Some([author |-> author, work_pattern |-> work_pattern])]

NextIssueWrite ==
    /\ \E first_author \in Devs, team_author \in Devs :
          GenerateIssue(first_author, team_author)
    /\ UNCHANGED <<drawn_author, batch, written_commit, stamp, bursts>>
    /\ UNCHANGED <<gen, written_run, written_pr, reset>>
    /\ UNCHANGED <<teamVars, trendVars, leadVars, deployVars>>

SpecIssueWrite == InitIssueWrite /\ [][NextIssueWrite]_vars

\* The work pattern the characteristics give a developer: 0 is distributed,
\* 1 is business, 2 is night_owl.
PatternOfDeveloper(dev) ==
    CASE written_issue.dev_characteristics[dev] = 0 -> "distributed"
      [] written_issue.dev_characteristics[dev] = 1 -> "business"
      [] written_issue.dev_characteristics[dev] = 2 -> "night_owl"

\* C25: the work pattern used to draw the hour of day of an issue's
\* created_at is the work pattern of the developer stored as its author.
C25_HourFromOwnAuthor ==
    ~IsNone(written_issue.issue) =>
        Value(written_issue.issue).work_pattern
            = PatternOfDeveloper(Value(written_issue.issue).author)

(***************************************************************************)
(* Generator, event timestamps: random_date of src/mock_data.py and the    *)
(* time of day its callers put in afterwards.  A day has SlotsPerDay times *)
(* of day (an hour, minute and second drawn together), a timestamp is the  *)
(* number of slots since midnight of the day SIMULATION_START_DATE falls   *)
(* on, and the window of 365 days is scaled down to WindowDays.            *)
(***************************************************************************)
\* SIMULATION_END_DATE = datetime.now(), SIMULATION_START_DATE is WindowDays
\* days before it: both have the time of day of the start of the program.
SimulationStart(now_slot) == now_slot
SimulationEnd(now_slot) == WindowDays * SlotsPerDay + now_slot

\* datetime.weekday(): 0 is Monday, 5 and 6 are the weekend.
Weekday(t, start_weekday) == (start_weekday + (t \div SlotsPerDay)) % 7

\* The weekday shift: "none" when the date is kept (a weekday, or the 30%
\* of the weekend dates left alone), "monday" forward, "friday" backward.
ShiftOutcomes(t, start_weekday) ==
    IF Weekday(t, start_weekday) >= 5 THEN {"none", "monday", "friday"} ELSE {"none"}
Shifted(t, start_weekday, shift) ==
    IF shift = "monday" THEN t + (7 - Weekday(t, start_weekday)) * SlotsPerDay
    ELSE IF shift = "friday" THEN t - (Weekday(t, start_weekday) - 4) * SlotsPerDay
    ELSE t

Clamp(t, lo, hi) == IF t < lo THEN lo ELSE IF t > hi THEN hi ELSE t

\* random_date(start_date, end_date, distribution, weekday_bias=True) for
\* the point random_second picks in the range and the outcome of the shift.
random_date(candidate_date, start_weekday, shift, now_slot) ==
    IF shift = "none" THEN candidate_date
    ELSE Clamp(Shifted(candidate_date, start_weekday, shift),
               SimulationStart(now_slot), SimulationEnd(now_slot))

\* date.replace(hour=hour, minute=minute, second=second): the same day, at
\* the time of day drawn.
ReplaceTimeOfDay(t, slot) == (t \div SlotsPerDay) * SlotsPerDay + slot

InitStamp ==
    /\ \E now_slot \in 0..(SlotsPerDay - 1), start_weekday \in 0..6 :
          stamp = [now_slot |-> now_slot, start_weekday |-> start_weekday, event |-> None]
    /\ drawn_author = << >>
    /\ batch = << >>
    /\ written_commit = << >>
    /\ written_issue = << >>
    /\ bursts = << >>
    /\ gen = [pc |-> "idle", team_sizes |-> << >>, total_allocated |-> 0,
              adjustment_needed |-> 0, remaining_authors |-> << >>, teams |-> << >>]
    /\ written_run = None
    /\ written_pr = None
    /\ reset = [pc |-> "idle", collections |-> << >>, deleted |-> 0, inserted |-> 0]
    /\ TeamIdle
    /\ TrendIdle
    /\ LeadIdle
    /\ DeployIdle

\* created_at of an Issue (lines 437-455) or a WorkflowRun (1126-1147), and
\* committed_at of a Commit dated by the fallback (line 921, 946-958):
\* random_date, then the time of day.
StampByRandomDate(kind, candidate_date, shift, slot) ==
    /\ candidate_date >= SimulationStart(stamp.now_slot)
    /\ candidate_date <= SimulationEnd(stamp.now_slot)
    /\ shift \in ShiftOutcomes(candidate_date, stamp.start_weekday)
    /\ stamp' = [stamp EXCEPT !.event =
          Some([kind |-> kind,
                at |-> ReplaceTimeOfDay(random_date(candidate_date, stamp.start_weekday,
                                                    shift, stamp.now_slot), slot)])]

\* committed_at of a Commit dated from a burst (lines 923-958): the centre
\* of the burst by random_date, the offset, the clamp to the window, the
\* weekday shift, then the time of day.
StampByBurst(candidate_date, centre_shift, time_offset, shift, slot) ==
    /\ candidate_date >= SimulationStart(stamp.now_slot)
    /\ candidate_date <= SimulationEnd(stamp.now_slot)
    /\ centre_shift \in ShiftOutcomes(candidate_date, stamp.start_weekday)
    /\ LET center_date == random_date(candidate_date, stamp.start_weekday,
                                      centre_shift, stamp.now_slot)
           clamped == Clamp(center_date + time_offset,
                            SimulationStart(stamp.now_slot), SimulationEnd(stamp.now_slot))
       IN  /\ shift \in ShiftOutcomes(clamped, stamp.start_weekday)
           /\ stamp' = [stamp EXCEPT !.event =
                 Some([kind |-> "Commit",
                       at |-> ReplaceTimeOfDay(Shifted(clamped, stamp.start_weekday, shift),
                                               slot)])]

Candidates == 0..((WindowDays + 1) * SlotsPerDay - 1)
Shifts == {"none", "monday", "friday"}
Slots == 0..(SlotsPerDay - 1)

NextStamp ==
    /\ \/ \E kind \in {"Issue", "WorkflowRun", "Commit"}, c \in Candidates,
             shift \in Shifts, slot \in Slots :
                StampByRandomDate(kind, c, shift, slot)
       \/ \E c \in Candidates, centre_shift \in Shifts,
             time_offset \in (0 - MaxSpread)..MaxSpread, shift \in Shifts, slot \in Slots :
                StampByBurst(c, centre_shift, time_offset, shift, slot)
    /\ UNCHANGED <<drawn_author, batch, written_commit, written_issue, bursts>>
    /\ UNCHANGED <<gen, written_run, written_pr, reset>>
    /\ UNCHANGED <<teamVars, trendVars, leadVars, deployVars>>

SpecStamp == InitStamp /\ [][NextStamp]_vars

\* C26: every generated Issue and WorkflowRun created_at and every Commit
\* committed_at lies in the simulation window, after the weekday shift and
\* the replacement of the time of day, so the position of a workflow run
\* on the normalized timeline is in [0, 1].
C26_StampInWindow ==
    ~IsNone(stamp.event) =>
        /\ Value(stamp.event).at >= stamp.now_slot
        /\ Value(stamp.event).at <= WindowDays * SlotsPerDay + stamp.now_slot

(***************************************************************************)
(* Generator, commit bursts: the clusters of one repository and the choice *)
(* of a cluster for every commit, lines 898-935 of src/mock_data.py, with  *)
(* the number of clusters, their sizes and COMMITS_PER_REPO scaled down.   *)
(***************************************************************************)
\* cluster_size = max(1, int(np.random.normal(...))) for every cluster
ClusterSizes ==
    UNION {[1..n -> 1..MaxClusterSize] : n \in 1..MaxClusters}

RECURSIVE SumWeights(_, _)
SumWeights(weights, k) == IF k = 0 THEN 0 ELSE weights[k] + SumWeights(weights, k - 1)

\* The mutant of ChoicesOutcomes: any index is returned, whatever its weight.
ChoicesAnyIndex(weights) == 1..Len(weights)

\* random.choices(range(len(cluster_centers)), weights=weights)[0]: an
\* index whose weight is not 0.
ChoicesOutcomes(weights) == {k \in 1..Len(weights) : weights[k] > 0}

InitBursts ==
    /\ \E sizes \in ClusterSizes :
          bursts = [cluster_centers |-> sizes, i |-> 0,
                    last |-> [how |-> "none", chosen_idx |-> 0, before |-> sizes]]
    /\ drawn_author = << >>
    /\ batch = << >>
    /\ written_commit = << >>
    /\ written_issue = << >>
    /\ stamp = << >>
    /\ gen = [pc |-> "idle", team_sizes |-> << >>, total_allocated |-> 0,
              adjustment_needed |-> 0, remaining_authors |-> << >>, teams |-> << >>]
    /\ written_run = None
    /\ written_pr = None
    /\ reset = [pc |-> "idle", collections |-> << >>, deleted |-> 0, inserted |-> 0]
    /\ TeamIdle
    /\ TrendIdle
    /\ LeadIdle
    /\ DeployIdle

\* One iteration of the commit loop, the dating of the commit: the sizes
\* are the weights; with a total of 0 the date is drawn by random_date, and
\* otherwise from the cluster chosen, which loses one unit of size.
DateCommit ==
    /\ bursts.i < CommitsPerRepo
    /\ LET weights == bursts.cluster_centers
           total_weight == SumWeights(weights, Len(weights))
       IN  IF total_weight = 0
           THEN bursts' = [bursts EXCEPT
                              !.i = @ + 1,
                              !.last = [how |-> "fallback", chosen_idx |-> 0,
                                        before |-> weights]]
           ELSE \E chosen_idx \in ChoicesOutcomes(weights) :
                   bursts' = [bursts EXCEPT
                                 !.i = @ + 1,
                                 !.cluster_centers[chosen_idx] = @ - 1,
                                 !.last = [how |-> "burst", chosen_idx |-> chosen_idx,
                                           before |-> weights]]

NextBursts ==
    /\ DateCommit
    /\ UNCHANGED <<drawn_author, batch, written_commit, written_issue, stamp>>
    /\ UNCHANGED <<gen, written_run, written_pr, reset>>
    /\ UNCHANGED <<teamVars, trendVars, leadVars, deployVars>>

SpecBursts == InitBursts /\ [][NextBursts]_vars

AllDepleted(sizes) == \A k \in 1..Len(sizes) : sizes[k] = 0

\* C27: no burst's remaining capacity drops below 0, a burst with capacity
\* 0 is never chosen, the chosen burst loses exactly one unit per commit
\* and no other burst changes, and a commit is dated by the uniform
\* fallback exactly when every burst has capacity 0.
C27_BurstCapacity ==
    /\ \A k \in 1..Len(bursts.cluster_centers) : bursts.cluster_centers[k] >= 0
    /\ bursts.last.how = "burst" =>
          /\ bursts.last.before[bursts.last.chosen_idx] > 0
          /\ bursts.cluster_centers =
                [bursts.last.before EXCEPT ![bursts.last.chosen_idx] = @ - 1]
    /\ bursts.last.how = "fallback" => bursts.cluster_centers = bursts.last.before
    /\ bursts.last.how # "none" =>
          (bursts.last.how = "fallback" <=> AllDepleted(bursts.last.before))

\* Two bursts of three commits together: the fourth commit is dated by the
\* fallback.
C27_Witness ==
    /\ Len(bursts.cluster_centers) = 2
    /\ bursts.i = 4
    /\ bursts.last.how = "fallback"
    /\ AllDepleted(bursts.cluster_centers)

====
